---- MODULE Spec2Model ----
(***************************************************************************)
(* State-machine model of localfilestore: the hash-chained ledger          *)
(* (src/src/blockchain.ts) and the ledger-facing message handlers of the   *)
(* P2P node (src/src/index.ts) with the server callbacks that persist the  *)
(* chain (src/src/server.ts).                                              *)
(*                                                                         *)
(* Hex strings are sequences of digits.  SHA-256 is modelled by sha256     *)
(* below: a deterministic, collision-free digest whose leading digits are  *)
(* a mixing function of the whole input.                                   *)
(***************************************************************************)
EXTENDS Integers, Sequences, FiniteSets, Bags, TLC

VARIABLES
    chain,      \* Blockchain.chain: the sequence of blocks
    fileIndex,  \* Blockchain.fileIndex: Map file id -> block
    peers,      \* P2PNode.peers: Map peer id -> socket (connection)
    disk,       \* the content of blockchain.json, <<>> while the file is absent
    sent,       \* the messages written to sockets by the last step
    call,       \* the last call or handled message: its name, input and outcome
    appended,   \* the blocks received in a BROADCAST_BLOCK and appended so far
    accounts,   \* IncentiveManager.accounts: Map node id -> NodeAccount
    remote,     \* the chain of the remote node at the other end of a connection
    wire,       \* that connection: who dialled, which ends have run
                \* handleConnection (open), the peerId of the node's closure, what
                \* the node (out) and the remote node (in) have written to it, and
                \* how many of those messages the other end has handled
    peerInfo,   \* P2PNode.peerInfo: Map peer id -> PeerInfo
    socks,      \* per socket, the closure of handleConnection: whether the
                \* socket is open, peerId (<<>> for null) and buffer
    fileTransfers, \* P2PNode.fileTransfers: Map file id -> FileTransferSession
    request,    \* the download of handleDownloadFromNetwork: the promise, its
                \* timer and P2PNode.onFileReceived
    feed,       \* per socket, the bytes the peer has written that have not
                \* reached the data handler yet
    log         \* what the node has dispatched or delivered so far

vars == <<chain, fileIndex, peers, disk, sent, call, appended, accounts, remote, wire,
          peerInfo, socks, fileTransfers, request, feed, log>>

\* the variables of the sessions of the node
sessVars == <<socks, fileTransfers, request, feed, log>>

\* the variables of the network around the node
netVars == <<appended, accounts, remote, wire, peerInfo, socks, fileTransfers, request,
             feed, log>>

----------------------------------------------------------------------------
(* Bounds of the model *)

\* local chains are grown up to this many blocks
MaxChain == 3
\* mineBlock's default maxAttempts (10_000_000), scaled to the digit alphabet
MaxAttempts == 4

----------------------------------------------------------------------------
(* Block contents *)

\* scaled stand-in for 1704067200000
GENESIS_TIMESTAMP == 0

GenesisId == "genesis"
FileIds == {"f1", "f2"}
BlockTypes == {"REGISTER", "DELETE", "UPDATE"}

\* FileRecord: the id and one representative of the remaining fields
FileRecord(id, size) == [id |-> id, size |-> size]
\* BlockData
BlockData(type, id, size) == [type |-> type, file |-> FileRecord(id, size)]

\* JSON.stringify of the type and id strings: one digit per distinct string
TypeCode(t) == CASE t = "REGISTER" -> 1 [] t = "DELETE" -> 2 [] t = "UPDATE" -> 3
IdCode(id) == CASE id = "genesis" -> 0 [] id = "f1" -> 1 [] id = "f2" -> 2 [] id = "f3" -> 3

\* JSON.stringify({index, timestamp, data, previousHash, nonce}): the fields in
\* that order; the length digit stands for the quotes delimiting previousHash
Serialize(block) ==
    <<block.index, block.timestamp, TypeCode(block.data.type),
      IdCode(block.data.file.id), block.data.file.size,
      Len(block.previousHash)>> \o block.previousHash \o <<block.nonce>>

\* the powers of 5 modulo 11, 5^k at place (k % 5) + 1
Pow5 == <<1, 5, 3, 4, 9>>

\* a rolling digest modulo 11 of the digits of s: from 7, each digit in turn
\* takes acc to (acc * 5 + (s[i] + i) * (s[i] + 1) + 3) % 11; written as the
\* sum it unrolls to
Mix(s) ==
    LET n == Len(s)
        term == [i \in 1..n |->
                    ((s[i] + i) * (s[i] + 1) + 3) * Pow5[((n - i) % 5) + 1]]
    IN  (7 * Pow5[(n % 5) + 1] + BagCardinality(term)) % 11

\* crypto.createHash('sha256').update(data).digest('hex')
sha256(s) ==
    LET m == Mix(s)
    IN  <<m % 2, (m \div 2) % 2>> \o s

calculateHash(block) == sha256(Serialize(block))

WithHash(block, h) ==
    [index |-> block.index, timestamp |-> block.timestamp, data |-> block.data,
     previousHash |-> block.previousHash, hash |-> h, nonce |-> block.nonce]

createGenesisBlock ==
    LET block == [index |-> 0, timestamp |-> GENESIS_TIMESTAMP,
                  data |-> BlockData("REGISTER", GenesisId, 0),
                  previousHash |-> <<0>>, nonce |-> 0]
    IN  WithHash(block, calculateHash(block))

\* hash.startsWith('0'.repeat(difficulty))
startsWithZeros(h, difficulty) ==
    /\ difficulty <= Len(h)
    /\ \A i \in 1..difficulty : h[i] = 0

RECURSIVE mineLoop(_, _, _, _, _, _, _)
mineLoop(index, timestamp, data, previousHash, difficulty, maxAttempts, nonce) ==
    IF nonce < maxAttempts
    THEN LET block == [index |-> index, timestamp |-> timestamp, data |-> data,
                       previousHash |-> previousHash, nonce |-> nonce]
             hash == calculateHash(block)
         IN  IF startsWithZeros(hash, difficulty)
             THEN [success |-> TRUE, block |-> <<WithHash(block, hash)>>]
             ELSE mineLoop(index, timestamp, data, previousHash, difficulty,
                           maxAttempts, nonce + 1)
    ELSE [success |-> FALSE, block |-> <<>>]

\* mineBlock with the first nonce skipped
mineBlockFromOne(index, timestamp, data, previousHash, difficulty, maxAttempts) ==
    mineLoop(index, timestamp, data, previousHash, difficulty, maxAttempts, 1)

\* MineResult: block is <<b>> on success and <<>> (absent) on failure
mineBlock(index, timestamp, data, previousHash, difficulty, maxAttempts) ==
    mineLoop(index, timestamp, data, previousHash, difficulty, maxAttempts, 0)

\* isValidBlock: index contiguity, previousHash linkage, hash recomputation
isValidBlock(newBlock, previousBlock) ==
    IF previousBlock.index + 1 # newBlock.index THEN FALSE
    ELSE IF previousBlock.hash # newBlock.previousHash THEN FALSE
    ELSE IF calculateHash(newBlock) # newBlock.hash THEN FALSE
    ELSE TRUE

----------------------------------------------------------------------------
(* class Blockchain.  A Blockchain object is the pair chain, fileIndex; its  *)
(* methods are operators from the object (and the inputs) to the outcome.    *)

\* Blockchain.difficulty
difficulty == 2

\* Map.set(k, v)
MapSet(m, k, v) == [x \in DOMAIN m \cup {k} |-> IF x = k THEN v ELSE m[x]]
EmptyMap == [x \in {} |-> 0]

\* the object after the constructor: genesis pushed, nothing indexed
NewBlockchain == [chain |-> <<createGenesisBlock>>, fileIndex |-> EmptyMap]

\* getLatestBlock that returns the first block
getLatestBlockFirst(c) == c[1]

getLatestBlock(c) == c[Len(c)]

\* addBlock that indexes the payload before it knows the mining result
addBlockIndexFirst(c, idx, data, now) ==
    LET previousBlock == c[Len(c)]
        result == mineBlock(previousBlock.index + 1, now, data,
                            previousBlock.hash, difficulty, MaxAttempts)
    IN  IF ~result.success \/ result.block = <<>>
        THEN [threw |-> TRUE, chain |-> c,
              fileIndex |-> MapSet(idx, data.file.id, previousBlock), block |-> <<>>]
        ELSE LET newBlock == result.block[1]
             IN  [threw |-> FALSE,
                  chain |-> Append(c, newBlock),
                  fileIndex |-> MapSet(idx, data.file.id, newBlock),
                  block |-> <<newBlock>>]

\* addBlock that seals against the first block instead of the latest
addBlockOnFirst(c, idx, data, now) ==
    LET previousBlock == c[1]
        result == mineBlock(previousBlock.index + 1, now, data,
                            previousBlock.hash, difficulty, MaxAttempts)
    IN  IF ~result.success \/ result.block = <<>>
        THEN [threw |-> TRUE, chain |-> c, fileIndex |-> idx, block |-> <<>>]
        ELSE LET newBlock == result.block[1]
             IN  [threw |-> FALSE,
                  chain |-> Append(c, newBlock),
                  fileIndex |-> MapSet(idx, data.file.id, newBlock),
                  block |-> <<newBlock>>]

\* addBlock that does not index the payload of the new block
addBlockNoIndex(c, idx, data, now) ==
    LET previousBlock == getLatestBlock(c)
        result == mineBlock(previousBlock.index + 1, now, data,
                            previousBlock.hash, difficulty, MaxAttempts)
    IN  IF ~result.success \/ result.block = <<>>
        THEN [threw |-> TRUE, chain |-> c, fileIndex |-> idx, block |-> <<>>]
        ELSE LET newBlock == result.block[1]
             IN  [threw |-> FALSE,
                  chain |-> Append(c, newBlock),
                  fileIndex |-> idx,
                  block |-> <<newBlock>>]

\* addBlock(data) with Date.now() = now: threw is the Error of a failed mining
addBlock(c, idx, data, now) ==
    LET previousBlock == getLatestBlock(c)
        result == mineBlock(previousBlock.index + 1, now, data,
                            previousBlock.hash, difficulty, MaxAttempts)
    IN  IF ~result.success \/ result.block = <<>>
        THEN [threw |-> TRUE, chain |-> c, fileIndex |-> idx, block |-> <<>>]
        ELSE LET newBlock == result.block[1]
             IN  [threw |-> FALSE,
                  chain |-> Append(c, newBlock),
                  fileIndex |-> MapSet(idx, data.file.id, newBlock),
                  block |-> <<newBlock>>]

\* isNewChainValid: block 0's stored hash against the genesis hash, then every
\* consecutive pair
isNewChainValid(newChain) ==
    IF newChain[1].hash # createGenesisBlock.hash THEN FALSE
    ELSE \A i \in 2..Len(newChain) : isValidBlock(newChain[i], newChain[i - 1])

RECURSIVE rebuildFrom(_, _, _)
rebuildFrom(c, i, idx) ==
    IF i > Len(c) THEN idx
    ELSE rebuildFrom(c, i + 1, MapSet(idx, c[i].data.file.id, c[i]))

\* rebuildIndex: clear, then set every block of the chain in order
rebuildIndex(c) == rebuildFrom(c, 1, EmptyMap)

\* replaceChain that also takes a candidate of equal length
replaceChainTies(c, idx, newChain) ==
    IF Len(newChain) < Len(c)
    THEN [ret |-> FALSE, checked |-> FALSE, valid |-> FALSE,
          chain |-> c, fileIndex |-> idx]
    ELSE IF ~isNewChainValid(newChain)
    THEN [ret |-> FALSE, checked |-> TRUE, valid |-> FALSE,
          chain |-> c, fileIndex |-> idx]
    ELSE [ret |-> TRUE, checked |-> TRUE, valid |-> TRUE,
          chain |-> newChain, fileIndex |-> rebuildIndex(newChain)]

\* replaceChain that clears the index when the candidate is not valid
replaceChainDropsIndex(c, idx, newChain) ==
    IF Len(newChain) <= Len(c)
    THEN [ret |-> FALSE, checked |-> FALSE, valid |-> FALSE,
          chain |-> c, fileIndex |-> idx]
    ELSE IF ~isNewChainValid(newChain)
    THEN [ret |-> FALSE, checked |-> TRUE, valid |-> FALSE,
          chain |-> c, fileIndex |-> EmptyMap]
    ELSE [ret |-> TRUE, checked |-> TRUE, valid |-> TRUE,
          chain |-> newChain, fileIndex |-> rebuildIndex(newChain)]

\* replaceChain that takes one block of the candidate beyond its own length
replaceChainAppendsOne(c, idx, newChain) ==
    IF Len(newChain) <= Len(c)
    THEN [ret |-> FALSE, checked |-> FALSE, valid |-> FALSE,
          chain |-> c, fileIndex |-> idx]
    ELSE IF ~isNewChainValid(newChain)
    THEN [ret |-> FALSE, checked |-> TRUE, valid |-> FALSE,
          chain |-> c, fileIndex |-> idx]
    ELSE [ret |-> TRUE, checked |-> TRUE, valid |-> TRUE,
          chain |-> SubSeq(newChain, 1, Len(c) + 1),
          fileIndex |-> rebuildIndex(SubSeq(newChain, 1, Len(c) + 1))]

\* replaceChain(newChain): checked says whether isNewChainValid ran, valid its
\* result
replaceChain(c, idx, newChain) ==
    IF Len(newChain) <= Len(c)
    THEN [ret |-> FALSE, checked |-> FALSE, valid |-> FALSE,
          chain |-> c, fileIndex |-> idx]
    ELSE IF ~isNewChainValid(newChain)
    THEN [ret |-> FALSE, checked |-> TRUE, valid |-> FALSE,
          chain |-> c, fileIndex |-> idx]
    ELSE [ret |-> TRUE, checked |-> TRUE, valid |-> TRUE,
          chain |-> newChain, fileIndex |-> rebuildIndex(newChain)]

\* findFile(fileId): <<block>> when the index holds the id, <<>> for undefined
findFile(idx, fileId) == IF fileId \in DOMAIN idx THEN <<idx[fileId]>> ELSE <<>>

RECURSIVE getAllFilesFrom(_, _, _, _)
getAllFilesFrom(c, i, seen, files) ==
    IF i < 1 THEN files
    ELSE LET block == c[i]
             file == block.data.file
         IN  IF file.id # "genesis" /\ file.id \notin seen
             THEN getAllFilesFrom(c, i - 1, seen \cup {file.id},
                                  IF block.data.type # "DELETE"
                                  THEN <<file>> \o files ELSE files)
             ELSE getAllFilesFrom(c, i - 1, seen, files)

RECURSIVE getAllFilesKeepDeleted(_, _, _, _)
getAllFilesKeepDeleted(c, i, seen, files) ==
    IF i < 1 THEN files
    ELSE LET file == c[i].data.file
         IN  IF file.id # "genesis" /\ file.id \notin seen
             THEN getAllFilesKeepDeleted(c, i - 1, seen \cup {file.id},
                                         <<file>> \o files)
             ELSE getAllFilesKeepDeleted(c, i - 1, seen, files)

\* getAllFiles that does not look at the block type
getAllFilesNoDelete(c) == getAllFilesKeepDeleted(c, Len(c), {}, <<>>)

\* getAllFiles: from the last block to the first, unshift keeps chain order
getAllFiles(c) == getAllFilesFrom(c, Len(c), {}, <<>>)

----------------------------------------------------------------------------
(* Inputs.  Date.now(), the payloads callers register, and the chains and    *)
(* blocks a remote peer can put on the wire: chains it mined honestly,       *)
(* chains it sealed without proof of work, chains built on an altered        *)
(* block 0, and chains with one field altered after sealing.                 *)

\* values of Date.now()
Times == {1, 2}

\* payloads of addBlock
LocalDatas ==
    { BlockData("REGISTER", "f1", 1), BlockData("UPDATE", "f1", 2),
      BlockData("DELETE", "f1", 1),   BlockData("REGISTER", "f2", 1) }

\* payloads a remote peer puts in its blocks
PeerDatas == { BlockData("REGISTER", "f2", 2), BlockData("DELETE", "f2", 2) }

\* a block attached to tip with a matching hash and no proof of work
Sealed(tip, data, timestamp) ==
    LET block == [index |-> tip.index + 1, timestamp |-> timestamp, data |-> data,
                  previousHash |-> tip.hash, nonce |-> 0]
    IN  WithHash(block, calculateHash(block))

\* the blocks a peer can attach to tip: mined as mineBlock does, or only sealed
PeerBlocks(tip, datas) ==
    UNION { LET r == mineBlock(tip.index + 1, 1, d, tip.hash, difficulty, MaxAttempts)
            IN  (IF r.success THEN {r.block[1]} ELSE {}) \cup {Sealed(tip, d, 1)}
            : d \in datas }

RECURSIVE GrowChains(_, _, _)
GrowChains(S, n, datas) ==
    IF n = 0 THEN S
    ELSE GrowChains(S \cup UNION { { Append(c, b) : b \in PeerBlocks(getLatestBlock(c), datas) }
                                   : c \in S },
                    n - 1, datas)

\* block 0 altered: the genesis with another payload, another index or another
\* stored hash
AlteredGenesis ==
    LET g == createGenesisBlock
    IN  { [g EXCEPT !.data = BlockData("REGISTER", "f1", 1)],
          [g EXCEPT !.index = 1],
          [g EXCEPT !.hash = <<1>> \o g.hash] }

\* one field of block i altered after sealing
Tampered(c, i) ==
    { [c EXCEPT ![i].data = BlockData("REGISTER", "f1", 2)],
      [c EXCEPT ![i].timestamp = 2],
      [c EXCEPT ![i].nonce = c[i].nonce + 1],
      [c EXCEPT ![i].index = c[i].index + 1],
      [c EXCEPT ![i].previousHash = <<1>> \o c[i].previousHash],
      [c EXCEPT ![i].hash = <<1>> \o c[i].hash] }

\* chains of up to three blocks on the genesis
HonestChains == GrowChains({ <<createGenesisBlock>> }, 2, PeerDatas)

PeerChains ==
    LET minedFull == { c \in HonestChains :
                         /\ Len(c) = 3
                         /\ \A i \in 2..3 : startsWithZeros(c[i].hash, difficulty) }
    IN  HonestChains
        \cup GrowChains({ <<g>> : g \in AlteredGenesis }, 2,
                        { BlockData("REGISTER", "f2", 2) })
        \cup UNION { Tampered(c, 2) \cup Tampered(c, 3) : c \in minedFull }

----------------------------------------------------------------------------
(* The ledger engine under arbitrary calls of its two mutators               *)

NoCall ==
    [op |-> "new", data |-> <<>>, now |-> 0, arg |-> <<>>, threw |-> FALSE,
     ret |-> FALSE, checked |-> FALSE, valid |-> FALSE,
     conn |-> "", sender |-> "", path |-> ""]

\* no connection: nothing written, nothing handled
NoWire ==
    [open |-> {}, dialer |-> "", peerId |-> <<>>, out |-> <<>>, in |-> <<>>,
     nodeRead |-> 0, peerRead |-> 0]

\* no session: no socket, no transfer, no download
NoSession ==
    /\ peerInfo = EmptyMap
    /\ socks = EmptyMap
    /\ fileTransfers = EmptyMap
    /\ request = <<>>
    /\ feed = EmptyMap
    /\ log = <<>>

\* the node on its own
NoNet ==
    /\ appended = {}
    /\ accounts = EmptyMap
    /\ remote = <<>>
    /\ wire = NoWire
    /\ NoSession

Init ==
    /\ NoNet
    /\ chain = NewBlockchain.chain
    /\ fileIndex = NewBlockchain.fileIndex
    /\ peers = EmptyMap
    /\ disk = <<>>
    /\ sent = {}
    /\ call = NoCall

\* blockchain.addBlock(data)
AddBlock(data, now) ==
    /\ Len(chain) < MaxChain
    /\ LET r == addBlock(chain, fileIndex, data, now)
       IN  /\ chain' = r.chain
           /\ fileIndex' = r.fileIndex
           /\ call' = [NoCall EXCEPT !.op = "addBlock", !.data = <<data>>,
                                     !.now = now, !.threw = r.threw]
    /\ UNCHANGED <<peers, disk, sent, netVars>>

\* blockchain.replaceChain(newChain)
ReplaceChain(newChain) ==
    LET r == replaceChain(chain, fileIndex, newChain)
    IN  /\ chain' = r.chain
        /\ fileIndex' = r.fileIndex
        /\ call' = [NoCall EXCEPT !.op = "replaceChain", !.arg = newChain,
                                  !.ret = r.ret, !.checked = r.checked,
                                  !.valid = r.valid]
        /\ UNCHANGED <<peers, disk, sent, netVars>>

Next ==
    \/ \E data \in LocalDatas, now \in Times : AddBlock(data, now)
    \/ \E newChain \in PeerChains \cup {<<>>} : ReplaceChain(newChain)

Spec == Init /\ [][Next]_vars

----------------------------------------------------------------------------
(* mineBlock alone, on inputs drawn from bounded sets *)

MineInputs ==
    [index : 1..2, timestamp : Times, data : LocalDatas,
     previousHash : {createGenesisBlock.hash, <<0>>},
     difficulty : 0..3, maxAttempts : 0..(MaxAttempts + 1)]

InitMine ==
    /\ NoNet
    /\ chain = NewBlockchain.chain
    /\ fileIndex = NewBlockchain.fileIndex
    /\ peers = EmptyMap
    /\ disk = <<>>
    /\ sent = {}
    /\ \E a \in MineInputs : call = [op |-> "mineBlock", args |-> a, result |-> <<>>]

\* mineBlock(index, timestamp, data, previousHash, difficulty, maxAttempts)
MineBlock ==
    /\ call.op = "mineBlock" /\ call.result = <<>>
    /\ LET a == call.args
       IN  call' = [call EXCEPT !.result =
                      <<mineBlock(a.index, a.timestamp, a.data, a.previousHash,
                                  a.difficulty, a.maxAttempts)>>]
    /\ UNCHANGED <<chain, fileIndex, peers, disk, sent, netVars>>

NextMine == MineBlock

SpecMine == InitMine /\ [][NextMine]_vars

----------------------------------------------------------------------------
(* The node: FileServer with its P2PNode.  Local registrations and the       *)
(* handling of the two messages that carry blocks, on inputs a remote peer   *)
(* can send.                                                                 *)

PeerIds == {"p1", "p2"}
Conns == {"c1", "c2"}

\* the peers map after the handshakes of p1 on c1 and of p2 on c2
TwoPeers == [x \in PeerIds |-> IF x = "p1" THEN "c1" ELSE "c2"]

\* a P2PMessage written to socket to; data is <<>> for null
Msg(to, type, data) == [to |-> to, type |-> type, data |-> data]

\* sendMessage that writes to the socket of every peer
sendMessageToAll(socket, type, data) ==
    { Msg(peers[peerId], type, data) : peerId \in DOMAIN peers }

\* sendMessage(socket, message)
sendMessage(socket, type, data) == { Msg(socket, type, data) }

\* broadcast that writes to the first socket only
broadcastToOne(prs, type, data, exclude) ==
    { Msg(prs[peerId], type, data) :
        peerId \in { p \in (DOMAIN prs) \ exclude : prs[p] = "c1" } }

\* broadcast(message, excludePeerId): exclude is {} when no id is passed
broadcast(prs, type, data, exclude) ==
    { Msg(prs[peerId], type, data) : peerId \in (DOMAIN prs) \ exclude }

\* payloads of handleRegisterFile: type REGISTER, the id a fresh UUID
RegisterDatas(c) ==
    { BlockData("REGISTER", id, 1) :
        id \in {"f1", "f3"} \ { c[i].data.file.id : i \in 1..Len(c) } }

\* the blocks a peer attaches to the local tip; a chain at MaxChain takes no
\* further block, so none is offered
Attached(c) ==
    IF Len(c) < MaxChain THEN PeerBlocks(getLatestBlock(c), PeerDatas) ELSE {}

\* blocks a BROADCAST_BLOCK can carry: attached to the local tip, sealed ones
\* with the index or the previousHash off, and an old block
BroadcastBlocks(c) ==
    LET sealed == { Sealed(getLatestBlock(c), d, 1) : d \in PeerDatas }
    IN  Attached(c)
        \cup { [b EXCEPT !.index = b.index + 1] : b \in sealed }
        \cup { [b EXCEPT !.previousHash = <<1>> \o b.previousHash] : b \in sealed }
        \cup { c[1] }

\* chains a RESPONSE_BLOCKCHAIN can carry: a peer's chain, the empty array,
\* the local chain with one more block, and single blocks (the answer to
\* QUERY_LATEST)
ResponseChains(c) ==
    PeerChains \cup { <<>> }
        \cup { Append(c, b) : b \in Attached(c) }
        \cup { <<b>> : b \in Attached(c) }
        \cup { <<getLatestBlock(pc)>> : pc \in { h \in HonestChains : Len(h) = 3 } }

\* Date.now() of the node: later than the timestamp 1 of the blocks its peers
\* sealed before they sent them
NodeTimes == { now \in Times : now > 1 }

InitNode ==
    /\ NoNet
    /\ chain = NewBlockchain.chain
    /\ fileIndex = NewBlockchain.fileIndex
    /\ peers = TwoPeers
    /\ disk = <<>>
    /\ sent = {}
    /\ call = NoCall

\* handleRegisterFile from addBlock on: addBlock, broadcastBlock,
\* saveBlockchain; a mining failure is thrown to handleHttpRequest
Register(data, now) ==
    /\ Len(chain) < MaxChain
    /\ LET r == addBlock(chain, fileIndex, data, now)
       IN  /\ chain' = r.chain
           /\ fileIndex' = r.fileIndex
           /\ sent' = IF r.threw THEN {}
                      ELSE broadcast(peers, "BROADCAST_BLOCK", r.block, {})
           /\ disk' = IF r.threw THEN disk ELSE r.chain
           /\ call' = [NoCall EXCEPT !.op = "register", !.data = <<data>>,
                                     !.now = now, !.threw = r.threw,
                                     !.path = IF r.threw THEN "failed" ELSE "append"]
    /\ UNCHANGED peers

\* what handleBlockchainResponse reads of a received chain before it hands
\* it to replaceChain: the length and the last block
ReadChain(receivedChain) ==
    [len |-> Len(receivedChain),
     tip |-> IF Len(receivedChain) = 0 THEN <<>>
             ELSE <<receivedChain[Len(receivedChain)]>>]

\* handleMessage, case BROADCAST_BLOCK, on socket conn; an Error of addBlock
\* is caught by the data handler and ends the handling
HandleBroadcastBlock(conn, sender, newBlock) ==
    LET latest == getLatestBlock(chain)
        \* message.sender is read on the append branch only
        record(path) == [NoCall EXCEPT !.op = "BROADCAST_BLOCK", !.conn = conn,
                                       !.sender = IF path \in {"append", "failed"}
                                                  THEN sender ELSE "",
                                       !.path = path,
                                       !.arg = newBlock]
    IN  IF newBlock.previousHash = latest.hash /\ newBlock.index = latest.index + 1
        THEN /\ Len(chain) < MaxChain
             /\ \E now \in NodeTimes :
                  LET r == addBlock(chain, fileIndex, newBlock.data, now)
                  IN  /\ chain' = r.chain
                      /\ fileIndex' = r.fileIndex
                      /\ disk' = IF r.threw THEN disk ELSE r.chain
                      /\ sent' = IF r.threw THEN {}
                                 ELSE broadcast(peers, "BROADCAST_BLOCK",
                                                <<newBlock>>, {sender})
                      /\ call' = [record(IF r.threw THEN "failed" ELSE "append")
                                    EXCEPT !.threw = r.threw]
             /\ UNCHANGED peers
        ELSE IF newBlock.index > latest.index
        THEN /\ sent' = sendMessage(conn, "QUERY_ALL", <<>>)
             /\ call' = record("query")
             /\ UNCHANGED <<chain, fileIndex, peers, disk>>
        ELSE /\ sent' = {}
             /\ call' = record("ignore")
             /\ UNCHANGED <<chain, fileIndex, peers, disk>>

\* handleMessage, case RESPONSE_BLOCKCHAIN: handleBlockchainResponse
HandleBlockchainResponse(receivedChain) ==
    LET record(path) == [NoCall EXCEPT !.op = "RESPONSE_BLOCKCHAIN", !.path = path,
                                       !.arg = ReadChain(receivedChain)]
    IN  IF Len(receivedChain) = 0
        THEN /\ sent' = {}
             /\ call' = record("ignore")
             /\ UNCHANGED <<chain, fileIndex, peers, disk>>
        ELSE
        LET latestReceived == receivedChain[Len(receivedChain)]
            latestLocal == getLatestBlock(chain)
        IN  IF ~(latestReceived.index > latestLocal.index)
            THEN /\ sent' = {}
                 /\ call' = record("ignore")
                 /\ UNCHANGED <<chain, fileIndex, peers, disk>>
            ELSE IF latestLocal.hash = latestReceived.previousHash
            THEN /\ Len(chain) < MaxChain
                 /\ \E now \in NodeTimes :
                      LET r == addBlock(chain, fileIndex, latestReceived.data, now)
                      IN  /\ chain' = r.chain
                          /\ fileIndex' = r.fileIndex
                          /\ disk' = IF r.threw THEN disk ELSE r.chain
                          /\ call' = [record(IF r.threw THEN "failed" ELSE "append")
                                        EXCEPT !.threw = r.threw]
                 /\ sent' = {}
                 /\ UNCHANGED peers
            ELSE IF Len(receivedChain) = 1
            THEN /\ sent' = broadcast(peers, "QUERY_ALL", <<>>, {})
                 /\ call' = record("query")
                 /\ UNCHANGED <<chain, fileIndex, peers, disk>>
            ELSE LET r == replaceChain(chain, fileIndex, receivedChain)
                 IN  /\ chain' = r.chain
                     /\ fileIndex' = r.fileIndex
                     /\ sent' = {}
                     /\ call' = [record("replace") EXCEPT
                                   !.ret = r.ret, !.checked = r.checked,
                                   !.valid = r.valid]
                     /\ UNCHANGED <<peers, disk>>

NextNode ==
    \/ /\ \E data \in RegisterDatas(chain), now \in NodeTimes : Register(data, now)
       /\ UNCHANGED netVars
    \/ /\ \E conn \in Conns, sender \in PeerIds, newBlock \in BroadcastBlocks(chain) :
            HandleBroadcastBlock(conn, sender, newBlock)
       /\ UNCHANGED netVars
    \/ /\ \E receivedChain \in ResponseChains(chain) :
            HandleBlockchainResponse(receivedChain)
       /\ UNCHANGED netVars

SpecNode == InitNode /\ [][NextNode]_vars

----------------------------------------------------------------------------
(* Properties of the ledger engine *)

\* the positions of the blocks of c that carry file id
Carrying(c, id) == { i \in 1..Len(c) : c[i].data.file.id = id }
\* the most recent of them
Latest(c, id) == CHOOSE i \in Carrying(c, id) : \A j \in Carrying(c, id) : j <= i

\* every id a block or a lookup can name
AllIds == FileIds \cup {"genesis", "f3"}

\* C1: replaceChain(candidate) returns true and adopts the candidate iff the
\* candidate is longer than the local chain and passes isNewChainValid; in
\* every other case (shorter, tie, longer but invalid) it returns false and
\* the chain and the file index are as before the call.
C1_ReplaceContract ==
    [][call'.op = "replaceChain" =>
         LET candidate == call'.arg
             longer == Len(candidate) > Len(chain)
         IN  /\ call'.ret = (longer /\ isNewChainValid(candidate))
             /\ call'.ret => chain' = candidate
             /\ ~call'.ret => (chain' = chain /\ fileIndex' = fileIndex)]_vars

\* a longer candidate was rejected by validation and the ledger kept
C1_Witness ==
    /\ call.op = "replaceChain"
    /\ call.checked /\ ~call.ret
    /\ Len(call.arg) > Len(chain)

\* the block mineBlock's inputs a give with nonce n
Attempt(a, n) ==
    LET block == [index |-> a.index, timestamp |-> a.timestamp, data |-> a.data,
                  previousHash |-> a.previousHash, nonce |-> n]
    IN  WithHash(block, calculateHash(block))

\* C6: mineBlock returns success with the block of the smallest nonce in
\* [0, maxAttempts) whose hash has difficulty leading zeros, the other fields
\* as given, and a failure result without a block exactly when no nonce in
\* [0, maxAttempts) qualifies.
C6_MineSmallestNonce ==
    (call.op = "mineBlock" /\ call.result # <<>>) =>
        LET a == call.args
            r == call.result[1]
            good == { n \in 0..(a.maxAttempts - 1) :
                        startsWithZeros(Attempt(a, n).hash, a.difficulty) }
        IN  IF good = {}
            THEN ~r.success /\ r.block = <<>>
            ELSE /\ r.success
                 /\ \E n \in good :
                       /\ \A m \in good : n <= m
                       /\ r.block = <<Attempt(a, n)>>

\* mining succeeded after at least two rejected nonces
C6_Witness ==
    /\ call.op = "mineBlock" /\ call.result # <<>>
    /\ call.result[1].success
    /\ call.result[1].block[1].nonce >= 2
    /\ call.args.difficulty = 2

\* the four conditions of a well-formed chain
HashesMatch(c) == \A i \in 1..Len(c) : c[i].hash = calculateHash(c[i])
LinksMatch(c) == \A i \in 2..Len(c) : c[i].previousHash = c[i - 1].hash
IndicesFromZero(c) == \A i \in 1..Len(c) : c[i].index = i - 1
GenesisIdentical(c) == c[1] = createGenesisBlock
WellFormedChain(c) ==
    HashesMatch(c) /\ LinksMatch(c) /\ IndicesFromZero(c) /\ GenesisIdentical(c)

\* C2: validation of a candidate chain returns true iff every stored hash
\* equals the recomputed hash, every previousHash equals the predecessor's
\* hash, indices are contiguous from 0 and block 0 is the canonical genesis
\* in every field.
C2_ValidationIffWellFormed ==
    (call.op = "replaceChain" /\ call.checked) =>
        (call.valid <=> WellFormedChain(call.arg))

\* the nonces below maxAttempts that seal data on tip at time now
SealingNonces(tip, data, now, maxAttempts) ==
    { n \in 0..(maxAttempts - 1) :
        startsWithZeros(calculateHash([index |-> tip.index + 1, timestamp |-> now,
                                       data |-> data, previousHash |-> tip.hash,
                                       nonce |-> n]), difficulty) }

\* C7: when sealing fails in addBlock the error is raised and the chain (its
\* length and tip with it) and the file index are as before the call.
C7_FailedSealLeavesLedger ==
    [][(/\ call'.op = "addBlock"
        /\ SealingNonces(getLatestBlock(chain), call'.data[1], call'.now,
                         MaxAttempts) = {})
       => (call'.threw /\ chain' = chain /\ fileIndex' = fileIndex)]_vars

\* addBlock threw on a chain that already holds appended blocks
C7_Witness ==
    /\ call.op = "addBlock" /\ call.threw
    /\ Len(chain) > 1
    /\ DOMAIN fileIndex # {}

\* C8: a successful addBlock(payload) on a chain with tip T appends exactly
\* one block B with B.index = T.index + 1, B.previousHash = T.hash and
\* B.data = payload, leaves the earlier blocks unchanged and makes B the tip.
C8_AppendExtendsByOne ==
    [][(call'.op = "addBlock" /\ ~call'.threw) =>
         LET T == getLatestBlock(chain)
             B == getLatestBlock(chain')
         IN  /\ Len(chain') = Len(chain) + 1
             /\ SubSeq(chain', 1, Len(chain)) = chain
             /\ B.index = T.index + 1
             /\ B.previousHash = T.hash
             /\ B.data = call'.data[1]]_vars

\* a second block was appended on top of an appended block
C8_Witness ==
    /\ call.op = "addBlock" /\ ~call.threw
    /\ Len(chain) = 3
    /\ chain[3].previousHash = chain[2].hash
    /\ chain[2].previousHash = createGenesisBlock.hash

\* the number of records of files that carry id
CountOf(files, id) == Cardinality({ k \in 1..Len(files) : files[k].id = id })

\* C9: getAllFiles returns exactly one record for each id other than the
\* genesis id whose most recent block is not a DELETE, that record being the
\* most recent block's; nothing for an id whose most recent block is a
\* DELETE, and never a record of the genesis id.
C9_AllFilesLatestNonDeleted ==
    LET files == getAllFiles(chain)
    IN  \A id \in AllIds :
          IF /\ id # "genesis"
             /\ Carrying(chain, id) # {}
             /\ chain[Latest(chain, id)].data.type # "DELETE"
          THEN /\ CountOf(files, id) = 1
               /\ \E k \in 1..Len(files) :
                     files[k] = chain[Latest(chain, id)].data.file
          ELSE CountOf(files, id) = 0

\* f1 registered and later deleted: no record of f1 is returned
C9_Witness ==
    /\ \E i, j \in 1..Len(chain) :
          /\ i < j
          /\ chain[i].data.file.id = "f1" /\ chain[i].data.type # "DELETE"
          /\ j = Latest(chain, "f1") /\ chain[j].data.type = "DELETE"
    /\ CountOf(getAllFiles(chain), "f1") = 0

\* C10: findFile(id) returns the most recent block of the current chain that
\* carries id, and not-found exactly when no block of the chain carries it.
C10_IndexIsDerivedFromChain ==
    \A id \in AllIds :
        findFile(fileIndex, id) =
            IF Carrying(chain, id) = {} THEN <<>>
            ELSE <<chain[Latest(chain, id)]>>

\* C3: at every reachable state of the node the local chain is non-empty,
\* block i has index i, block 0 is the canonical genesis, and every block
\* after the first has previousHash equal to the hash of the block before it.
C3_LocalChainLinked ==
    /\ Len(chain) > 0
    /\ IndicesFromZero(chain)
    /\ GenesisIdentical(chain)
    /\ LinksMatch(chain)

\* C4: at every reachable state of the node every block after block 0 of the
\* local chain has a stored hash equal to the hash of its fields, and that
\* hash starts with difficulty zero characters.
C4_LocalBlocksSealed ==
    \A i \in 2..Len(chain) :
        /\ chain[i].hash = calculateHash(chain[i])
        /\ startsWithZeros(chain[i].hash, difficulty)

\* C5: across every step of the node the local chain does not get shorter,
\* and it changes only by an append, which keeps the old blocks and adds one,
\* or by a replace that adopts a strictly longer chain.
C5_LengthNeverDecreases ==
    [][ /\ Len(chain') >= Len(chain)
        /\ (chain' # chain =>
              \/ /\ call'.path = "append"
                 /\ Len(chain') = Len(chain) + 1
                 /\ SubSeq(chain', 1, Len(chain)) = chain
              \/ /\ call'.path = "replace" /\ call'.ret
                 /\ Len(chain') > Len(chain)) ]_vars

\* a longer chain received in a RESPONSE_BLOCKCHAIN has replaced a local chain
\* of more than one block, so blocks of the local chain were dropped
C5_Witness ==
    /\ call.op = "RESPONSE_BLOCKCHAIN" /\ call.path = "replace" /\ call.ret
    /\ Len(chain) = 3
    /\ Len(disk) = 2
    /\ SubSeq(chain, 1, 2) # disk

----------------------------------------------------------------------------
(* The node under repeated delivery: a block that was appended from a        *)
(* BROADCAST_BLOCK keeps arriving, as it does in a cyclic peer graph, while  *)
(* the node registers files and takes over the chains of its peers.          *)

NextFlood ==
    \/ /\ \E data \in RegisterDatas(chain), now \in NodeTimes : Register(data, now)
       /\ UNCHANGED netVars
    \/ /\ \E conn \in Conns, sender \in PeerIds,
             newBlock \in BroadcastBlocks(chain) \cup appended :
            /\ HandleBroadcastBlock(conn, sender, newBlock)
            /\ appended' = IF call'.path = "append"
                           THEN appended \cup {newBlock} ELSE appended
       /\ UNCHANGED <<accounts, remote, wire, peerInfo, sessVars>>
    \/ /\ \E receivedChain \in HonestChains :
            HandleBlockchainResponse(receivedChain)
       /\ UNCHANGED netVars

SpecFlood == InitNode /\ [][NextFlood]_vars

----------------------------------------------------------------------------
(* The node and one remote node on one connection.  Each end runs            *)
(* handleConnection once the connection is established and then handles the  *)
(* messages the other end wrote, in the order they were written.  Nothing    *)
(* is registered meanwhile.                                                  *)

\* the ids the two nodes generated, the socket as the node knows it, and the
\* ports they listen on
NodeId == "n0"
RemoteId == "p1"
Socket == "c1"
PortOf(id) == IF id = NodeId THEN "6001" ELSE "6002"

\* a P2PMessage on the wire; data is <<>> for null
WireMsg(type, data, sender) == [type |-> type, data |-> data, sender |-> sender]

\* handleConnection that writes nothing to the new socket
handleConnectionSilent(id) == <<>>

\* handleConnection(socket) of node id: what it writes to the socket before it
\* returns
handleConnection(id) ==
    << WireMsg("HANDSHAKE", [port |-> PortOf(id), nodeId |-> id], id) >>

\* the messages of one step of the node, as written to the socket
Written(msgs) ==
    IF { m \in msgs : m.to = Socket } = {} THEN <<>>
    ELSE LET m == CHOOSE x \in msgs : x.to = Socket
         IN  << WireMsg(m.type, m.data, NodeId) >>

\* whether every block after block 0 of c is mined
Mined(c) == \A i \in 2..Len(c) : startsWithZeros(c[i].hash, difficulty)

\* the chains the remote node can hold: mined block by block on the genesis
RemoteChains ==
    { c \in GrowChains({ <<createGenesisBlock>> }, MaxChain - 1, PeerDatas) :
        Len(c) >= 2 /\ Mined(c) }

\* the chains the node can hold when it connects to a remote node holding
\* remote: the fresh chain, or a shorter chain it loaded
NodeChains(longer) ==
    { <<createGenesisBlock>> } \cup { c \in RemoteChains : Len(c) < Len(longer) }

\* the node starts on a fresh chain or on one it loaded, the remote node on a
\* longer one; either node dialled
InitSync ==
    /\ NoSession
    /\ appended = {}
    /\ accounts = EmptyMap
    /\ remote \in RemoteChains
    /\ chain \in NodeChains(remote)
    /\ fileIndex = IF Len(chain) = 1 THEN NewBlockchain.fileIndex
                   ELSE rebuildIndex(chain)
    /\ disk = IF Len(chain) = 1 THEN <<>> ELSE chain
    /\ \E d \in {NodeId, RemoteId} : wire = [NoWire EXCEPT !.dialer = d]
    /\ peers = EmptyMap
    /\ sent = {}
    /\ call = NoCall

\* the node's end of the connection is set up: the connect callback of
\* connectToPeer when the node dialled, the server's connection callback
\* otherwise; both run handleConnection
NodeOpens ==
    /\ NodeId \notin wire.open
    /\ wire' = [wire EXCEPT !.open = @ \cup {NodeId},
                            !.out = @ \o handleConnection(NodeId)]
    /\ sent' = { Msg(Socket, m.type, m.data) :
                   m \in { handleConnection(NodeId)[k] :
                             k \in 1..Len(handleConnection(NodeId)) } }
    /\ call' = [NoCall EXCEPT !.op = "handleConnection", !.conn = Socket]
    /\ UNCHANGED <<chain, fileIndex, peers, disk, appended, accounts, remote, peerInfo,
                   sessVars>>

\* the remote node's end of the connection is set up
RemoteOpens ==
    /\ RemoteId \notin wire.open
    /\ wire' = [wire EXCEPT !.open = @ \cup {RemoteId},
                            !.in = @ \o handleConnection(RemoteId)]
    /\ UNCHANGED <<chain, fileIndex, peers, disk, sent, call, appended, accounts, remote,
                   peerInfo, sessVars>>

\* socket.remoteAddress
HostOf(socket) == socket

\* handleMessage, case HANDSHAKE, on socket conn whose closure holds peerId
\* (<<>> for null): setPeerId, peerInfo.set, then a QUERY_ALL on the same
\* socket
HandleHandshake(conn, peerId, message) ==
    /\ peers' = IF peerId = <<>> THEN MapSet(peers, message.sender, conn) ELSE peers
    /\ \E now \in NodeTimes :
          peerInfo' = MapSet(peerInfo, message.sender,
                             [host |-> HostOf(conn), port |-> message.data.port,
                              id |-> message.sender, lastSeen |-> now])
    /\ sent' = sendMessage(conn, "QUERY_ALL", <<>>)
    /\ call' = [NoCall EXCEPT !.op = "HANDSHAKE", !.conn = conn,
                              !.sender = message.sender, !.arg = message.data]
    /\ UNCHANGED <<chain, fileIndex, disk>>

\* handleMessage, case QUERY_ALL: the whole chain on the same socket
HandleQueryAll(conn) ==
    /\ sent' = sendMessage(conn, "RESPONSE_BLOCKCHAIN", chain)
    /\ call' = [NoCall EXCEPT !.op = "QUERY_ALL", !.conn = conn]
    /\ UNCHANGED <<chain, fileIndex, peers, disk>>

\* the node handles the next message the remote node wrote; what it writes
\* to the socket in return goes on the wire
NodeHandles ==
    /\ NodeId \in wire.open
    /\ wire.nodeRead < Len(wire.in)
    /\ LET message == wire.in[wire.nodeRead + 1]
       IN  /\ \/ /\ message.type = "HANDSHAKE"
                 /\ HandleHandshake(Socket, wire.peerId, message)
              \/ /\ message.type = "QUERY_ALL"
                 /\ HandleQueryAll(Socket)
                 /\ UNCHANGED peerInfo
              \/ /\ message.type = "RESPONSE_BLOCKCHAIN"
                 /\ HandleBlockchainResponse(message.data)
                 /\ UNCHANGED peerInfo
           /\ wire' = [wire EXCEPT
                        !.nodeRead = @ + 1,
                        !.out = @ \o Written(sent'),
                        !.peerId = IF message.type = "HANDSHAKE" /\ @ = <<>>
                                   THEN <<message.sender>> ELSE @]
    /\ UNCHANGED <<appended, accounts, remote, sessVars>>

\* handleMessage at the remote node, on its chain c: the chain it holds
\* afterwards and what it writes to the socket
RemoteReply(message, c, now) ==
    IF message.type = "HANDSHAKE"
    THEN [chain |-> c, written |-> << WireMsg("QUERY_ALL", <<>>, RemoteId) >>]
    ELSE IF message.type = "QUERY_ALL"
    THEN [chain |-> c, written |-> << WireMsg("RESPONSE_BLOCKCHAIN", c, RemoteId) >>]
    ELSE IF message.type # "RESPONSE_BLOCKCHAIN" \/ Len(message.data) = 0
    THEN [chain |-> c, written |-> <<>>]
    ELSE
    LET receivedChain == message.data
        latestReceived == receivedChain[Len(receivedChain)]
        latestLocal == getLatestBlock(c)
    IN  IF ~(latestReceived.index > latestLocal.index)
        THEN [chain |-> c, written |-> <<>>]
        ELSE IF latestLocal.hash = latestReceived.previousHash
        THEN [chain |-> addBlock(c, EmptyMap, latestReceived.data, now).chain,
              written |-> <<>>]
        ELSE IF Len(receivedChain) = 1
        THEN [chain |-> c, written |-> << WireMsg("QUERY_ALL", <<>>, RemoteId) >>]
        ELSE [chain |-> replaceChain(c, EmptyMap, receivedChain).chain,
              written |-> <<>>]

\* the remote node handles the next message the node wrote
RemoteHandles ==
    /\ RemoteId \in wire.open
    /\ wire.peerRead < Len(wire.out)
    /\ \E now \in NodeTimes :
          LET r == RemoteReply(wire.out[wire.peerRead + 1], remote, now)
          IN  /\ remote' = r.chain
              /\ wire' = [wire EXCEPT !.peerRead = @ + 1, !.in = @ \o r.written]
    /\ UNCHANGED <<chain, fileIndex, peers, disk, sent, call, appended, accounts, peerInfo,
                   sessVars>>

NextSync ==
    \/ NodeOpens
    \/ RemoteOpens
    \/ NodeHandles
    \/ RemoteHandles

SpecSync == InitSync /\ [][NextSync]_vars

----------------------------------------------------------------------------
(* Sessions: the data handler of handleConnection.  What a peer writes is a *)
(* stream of bytes; the handler decodes each read, cuts the text at the     *)
(* newlines, parses and validates every complete line and hands it to       *)
(* handleMessage.                                                           *)

\* JSON values as JSON.parse returns them, by their typeof
Str(s) == [t |-> "string", s |-> s]
Num(n) == [t |-> "number", n |-> n]
Undefined == [t |-> "undefined"]
Null == [t |-> "null"]
Arr(a) == [t |-> "array", a |-> a]
Obj(o) == [t |-> "object", o |-> o]

\* an object with the members of a P2PMessage; text is the user-supplied
\* strings inside data (FileRecord.filename, description), which no handler
\* reads
Envelope(type, sender, timestamp, data, text) ==
    [t |-> "object", type |-> type, sender |-> sender, timestamp |-> timestamp,
     data |-> data, text |-> text]

\* a well-formed P2PMessage
Message(type, sender, data, text) ==
    Envelope(Str(type), Str(sender), Num(1), data, text)

\* isValidP2PMessage
isValidP2PMessage(message) ==
    IF message.t # "object" THEN FALSE
    ELSE /\ message.type.t = "string"
         /\ message.sender.t = "string"
         /\ message.timestamp.t = "number"

\* Units of text.  A character is one unit; a run of ASCII characters that
\* spells the members of an object other than text, or a value that is not
\* an object, is one unit as well.  As bytes, every unit is itself except
\* the two-byte character
Unit(c) == [c |-> c, v |-> <<>>]
LF == Unit("LF")
LBrace == Unit("{")
RBrace == Unit("}")
Space == Unit(" ")
Fields(object) == [c |-> "fields", v |-> <<object>>]
Scalar(value) == [c |-> "scalar", v |-> <<value>>]
\* the character U+00E9 is the unit "E9"; its bytes C3 A9, and U+FFFD
ByteC3 == Unit("C3")
ByteA9 == Unit("A9")
Replacement == Unit("?")
Letters == {"a", "E9", "?"}

\* the characters of a string of up to two letters
Spell(str) ==
    CASE str = "" -> <<>>
      [] str = "a" -> <<Unit("a")>>
      [] str = "E9" -> <<Unit("E9")>>
      [] str = "aE9" -> <<Unit("a"), Unit("E9")>>

RECURSIVE Unspell(_)
Unspell(chars) ==
    IF chars = <<>> THEN "" ELSE chars[1].c \o Unspell(Tail(chars))

\* JSON.stringify(value)
Stringify(value) ==
    IF value.t = "object"
    THEN <<LBrace, Fields([value EXCEPT !.text = ""])>> \o Spell(value.text)
           \o <<RBrace>>
    ELSE <<Scalar(value)>>

\* Buffer.from(text, 'utf8'): what socket.write puts on the connection
RECURSIVE Utf8(_)
Utf8(text) ==
    IF text = <<>> THEN <<>>
    ELSE IF text[1].c = "E9" THEN <<ByteC3, ByteA9>> \o Utf8(Tail(text))
    ELSE <<text[1]>> \o Utf8(Tail(text))

\* data.toString(): UTF-8 decoding of the bytes of one read; a byte sequence
\* cut short, and a continuation byte without its lead byte, each decode to
\* U+FFFD
RECURSIVE toString(_)
toString(data) ==
    IF data = <<>> THEN <<>>
    ELSE IF data[1] = ByteC3 /\ Len(data) >= 2 /\ data[2] = ByteA9
    THEN <<Unit("E9")>> \o toString(SubSeq(data, 3, Len(data)))
    ELSE IF data[1] = ByteC3 \/ data[1] = ByteA9
    THEN <<Replacement>> \o toString(Tail(data))
    ELSE <<data[1]>> \o toString(Tail(data))

\* line.trim()
RECURSIVE trim(_)
trim(line) ==
    IF line = <<>> THEN <<>>
    ELSE IF line[1] = Space THEN trim(Tail(line))
    ELSE IF line[Len(line)] = Space THEN trim(SubSeq(line, 1, Len(line) - 1))
    ELSE line

\* JSON.parse(line): <<value>>, or <<>> for a SyntaxError
JSONparse(line) ==
    LET text == trim(line)
        n == Len(text)
    IN  IF n = 1 /\ text[1].c = "scalar" THEN text[1].v
        ELSE IF /\ n >= 3
                /\ text[1] = LBrace
                /\ text[2].c = "fields"
                /\ text[n] = RBrace
                /\ \A i \in 3..(n - 1) : text[i].c \in Letters
        THEN << [text[2].v[1] EXCEPT !.text = Unspell(SubSeq(text, 3, n - 1))] >>
        ELSE <<>>

\* buffer.split('\n'): the pieces between the newlines, the last one being
\* what follows the last newline
RECURSIVE split(_, _)
split(text, piece) ==
    IF text = <<>> THEN <<piece>>
    ELSE IF text[1] = LF THEN <<piece>> \o split(Tail(text), <<>>)
    ELSE split(Tail(text), Append(piece, text[1]))

\* chunk.toString('base64') and Buffer.from(chunk, 'base64'): one letter per
\* byte
toBase64(bytes) == [i \in 1..Len(bytes) |-> bytes[i] + 64]
fromBase64(str) == [i \in 1..Len(str) |-> str[i] - 64]

\* Buffer.concat(chunks)
RECURSIVE concat(_)
concat(chunks) ==
    IF chunks = <<>> THEN <<>> ELSE chunks[1] \o concat(Tail(chunks))

\* the state of the node as the handlers see it: the ledger, the maps of the
\* P2PNode, blockchain.json, the pending download, and what the handling of
\* one read has written to each socket and handed to onFileReceived
NodeState ==
    [chain |-> chain, fileIndex |-> fileIndex, peers |-> peers,
     peerInfo |-> peerInfo, fileTransfers |-> fileTransfers, disk |-> disk,
     request |-> request, written |-> [c \in Conns |-> <<>>], handed |-> <<>>]

\* sendMessage that writes the message twice
SendTwice(n, socket, message) ==
    [n EXCEPT !.written[socket] = Append(Append(@, message), message)]

\* sendMessage(socket, message) on the node n
Send(n, socket, message) ==
    [n EXCEPT !.written[socket] = Append(@, message)]

\* broadcast(message, excludePeerId) on the node n
Broadcast(n, message, exclude) ==
    [n EXCEPT !.written =
        [c \in Conns |->
            IF \E peerId \in (DOMAIN n.peers) \ exclude : n.peers[peerId] = c
            THEN Append(n.written[c], message) ELSE n.written[c]]]

\* the outcome of a handler: the node and whether an exception left the
\* handler; for handleMessage, also the peerId of the closure
Handled(n, threw) == [n |-> n, threw |-> threw]
Outcome(n, peerId, threw) == [n |-> n, peerId |-> peerId, threw |-> threw]

\* the requests whose callback is in the slot p2pNode.onFileReceived: the
\* slot holds one callback, that of the request that set it last
Listening(req) == { i \in 1..Len(req) : req[i].listening }

\* the server's onFileReceived callback of a pending download, when set
onFileReceived(n, receivedFileId, data) ==
    IF Listening(n.request) = {} THEN n
    ELSE LET i == CHOOSE j \in Listening(n.request) : TRUE
             n1 == [n EXCEPT !.handed =
                       Append(@, [fileId |-> receivedFileId, data |-> data])]
         IN  IF receivedFileId = n.request[i].fileId
             THEN [n1 EXCEPT !.request[i] =
                     [n.request[i] EXCEPT !.timer = FALSE, !.listening = FALSE,
                                          !.state = IF @ = "pending"
                                                    THEN "resolved" ELSE @,
                                          !.data = IF n.request[i].state = "pending"
                                                   THEN data ELSE @]]
             ELSE n1

\* handleFileResponse(data)
handleFileResponse(n, data) ==
    LET chunk == fromBase64(data.chunk)
        session == IF data.fileId \in DOMAIN n.fileTransfers
                   THEN n.fileTransfers[data.fileId]
                   ELSE [fileId |-> data.fileId, chunks |-> <<>>,
                         totalSize |-> 0, receivedSize |-> 0]
        pushed == [session EXCEPT !.chunks = Append(@, chunk),
                                  !.receivedSize = @ + Len(chunk)]
    IN  IF data.isLast
        THEN onFileReceived(
               [n EXCEPT !.fileTransfers =
                  [k \in (DOMAIN n.fileTransfers) \ {data.fileId} |->
                     n.fileTransfers[k]]],
               data.fileId, concat(pushed.chunks))
        ELSE [n EXCEPT !.fileTransfers = MapSet(@, data.fileId, pushed)]

\* handleBlockchainResponse(receivedChain) with the server's onBlockReceived
handleBlockchainResponse(n, receivedChain, now) ==
    IF Len(receivedChain) = 0 THEN Handled(n, FALSE)
    ELSE
    LET latestReceived == receivedChain[Len(receivedChain)]
        latestLocal == getLatestBlock(n.chain)
    IN  IF ~(latestReceived.index > latestLocal.index)
        THEN Handled(n, FALSE)
        ELSE IF latestLocal.hash = latestReceived.previousHash
        THEN LET r == addBlock(n.chain, n.fileIndex, latestReceived.data, now)
             IN  IF r.threw THEN Handled(n, TRUE)
                 ELSE Handled([n EXCEPT !.chain = r.chain,
                                        !.fileIndex = r.fileIndex,
                                        !.disk = r.chain], FALSE)
        ELSE IF Len(receivedChain) = 1
        THEN Handled(Broadcast(n, Message("QUERY_ALL", NodeId, Null, ""), {}),
                     FALSE)
        ELSE LET r == replaceChain(n.chain, n.fileIndex, receivedChain)
             IN  Handled([n EXCEPT !.chain = r.chain, !.fileIndex = r.fileIndex],
                         FALSE)

\* sendFile's chunk size (64 * 1024), scaled
ChunkSize == 2

\* sendFile(socket, fileId, data): the messages it writes, from offset i on
RECURSIVE sendFileFrom(_, _, _)
sendFileFrom(fileId, data, i) ==
    IF ~(i < Len(data)) THEN <<>>
    ELSE LET upto == IF i + ChunkSize < Len(data) THEN i + ChunkSize ELSE Len(data)
             chunk == SubSeq(data, i + 1, upto)
             isLast == i + ChunkSize >= Len(data)
         IN  << [fileId |-> fileId, chunk |-> toBase64(chunk), isLast |-> isLast] >>
               \o sendFileFrom(fileId, data, i + ChunkSize)

sendFile(fileId, data) == sendFileFrom(fileId, data, 0)

\* the files in the node's fileStoragePath
Stored == [id \in {"f1"} |-> <<1, 2, 3>>]

\* the server's onFileRequested callback: sendFile when the file is stored
onFileRequested(n, fileId, socket) ==
    IF fileId \notin DOMAIN Stored THEN n
    ELSE LET chunks == sendFile(fileId, Stored[fileId])
         IN  [n EXCEPT !.written[socket] =
                @ \o [k \in 1..Len(chunks) |->
                        Message("RESPONSE_FILE", NodeId, Obj(chunks[k]), "")]]

\* handleMessage(message, socket, setPeerId) on a valid message, with the
\* closure's peerId; reading a member of null data is a TypeError
handleMessage(n, socket, peerId, message, now) ==
    LET type == message.type.s
        sender == message.sender.s
        data == message.data
    IN  IF type = "HANDSHAKE"
        THEN LET set == peerId = <<>>
                 id == IF set THEN <<sender>> ELSE peerId
                 n1 == IF set THEN [n EXCEPT !.peers = MapSet(@, sender, socket)]
                       ELSE n
             IN  IF data.t = "null" THEN Outcome(n1, id, TRUE)
                 ELSE Outcome(
                        Send([n1 EXCEPT !.peerInfo =
                                MapSet(@, sender,
                                       [host |-> HostOf(socket),
                                        port |-> data.o.port,
                                        id |-> sender, lastSeen |-> now])],
                             socket, Message("QUERY_ALL", NodeId, Null, "")),
                        id, FALSE)
        ELSE IF type = "QUERY_LATEST"
        THEN Outcome(Send(n, socket,
                          Message("RESPONSE_BLOCKCHAIN", NodeId,
                                  Arr(<<getLatestBlock(n.chain)>>), "")),
                     peerId, FALSE)
        ELSE IF type = "QUERY_ALL"
        THEN Outcome(Send(n, socket,
                          Message("RESPONSE_BLOCKCHAIN", NodeId, Arr(n.chain), "")),
                     peerId, FALSE)
        ELSE IF type = "RESPONSE_BLOCKCHAIN"
        THEN IF data.t = "null" THEN Outcome(n, peerId, TRUE)
             ELSE LET r == handleBlockchainResponse(n, data.a, now)
                  IN  Outcome(r.n, peerId, r.threw)
        ELSE IF type = "BROADCAST_BLOCK"
        THEN IF data.t = "null" THEN Outcome(n, peerId, TRUE)
             ELSE
             LET newBlock == data.o
                 latest == getLatestBlock(n.chain)
             IN  IF /\ newBlock.previousHash = latest.hash
                    /\ newBlock.index = latest.index + 1
                 THEN LET r == addBlock(n.chain, n.fileIndex, newBlock.data, now)
                      IN  IF r.threw THEN Outcome(n, peerId, TRUE)
                          ELSE Outcome(
                                 Broadcast([n EXCEPT !.chain = r.chain,
                                                     !.fileIndex = r.fileIndex,
                                                     !.disk = r.chain],
                                           Message("BROADCAST_BLOCK", NodeId,
                                                   Obj(newBlock), message.text),
                                           {sender}),
                                 peerId, FALSE)
                 ELSE IF newBlock.index > latest.index
                 THEN Outcome(Send(n, socket, Message("QUERY_ALL", NodeId, Null, "")),
                              peerId, FALSE)
                 ELSE Outcome(n, peerId, FALSE)
        ELSE IF type = "REQUEST_FILE"
        THEN IF data.t = "null" THEN Outcome(n, peerId, TRUE)
             ELSE Outcome(onFileRequested(n, data.o.fileId, socket), peerId, FALSE)
        ELSE IF type = "RESPONSE_FILE"
        THEN IF data.t = "null" THEN Outcome(n, peerId, TRUE)
             ELSE Outcome(handleFileResponse(n, data.o), peerId, FALSE)
        ELSE Outcome(n, peerId, FALSE)

\* what the data handler has done so far in one read: the node, the
\* closure's peerId and buffer and, per line, what became of it
Noted(acc, n, peerId, what, message) ==
    [acc EXCEPT !.n = n, !.peerId = peerId,
                !.trace = Append(@, [what |-> what, message |-> message])]

\* the line was handed to handleMessage, with outcome r
Dispatched(acc, r, message) ==
    Noted(acc, r.n, r.peerId, IF r.threw THEN "threw" ELSE "handled", <<message>>)

\* the line holds the JSON value parsed (<<>> after a SyntaxError)
handleParsed(acc, parsed, socket, now) ==
    IF parsed = <<>> THEN Noted(acc, acc.n, acc.peerId, "syntax", <<>>)
    ELSE IF ~isValidP2PMessage(parsed[1])
    THEN Noted(acc, acc.n, acc.peerId, "invalid", <<>>)
    ELSE Dispatched(acc, handleMessage(acc.n, socket, acc.peerId, parsed[1], now),
                    parsed[1])

\* the body of the data handler's loop for one line: a blank line is
\* skipped; a SyntaxError of JSON.parse and an exception of handleMessage are
\* caught; a value that is not a P2PMessage is logged
handleLine(acc, line, socket, now) ==
    IF trim(line) = <<>> THEN Noted(acc, acc.n, acc.peerId, "blank", <<>>)
    ELSE handleParsed(acc, JSONparse(line), socket, now)

\* handleLines from the last line to the first
RECURSIVE handleLinesBackwards(_, _, _, _)
handleLinesBackwards(acc, lines, socket, now) ==
    IF lines = <<>> THEN acc
    ELSE handleLinesBackwards(handleLine(acc, lines[Len(lines)], socket, now),
                              SubSeq(lines, 1, Len(lines) - 1), socket, now)

\* for (const line of lines): each line in turn, on the state the lines
\* before it have left
RECURSIVE handleLines(_, _, _, _)
handleLines(acc, lines, socket, now) ==
    IF lines = <<>> THEN acc
    ELSE handleLines(handleLine(acc, lines[1], socket, now), Tail(lines),
                     socket, now)

\* the loop of the data handler over the pieces of the text: the pieces
\* before the last newline are the lines, the piece after it stays in the
\* buffer
onLines(n, socket, peerId, pieces, now) ==
    handleLines([n |-> n, peerId |-> peerId, trace |-> <<>>,
                 buffer |-> pieces[Len(pieces)]],
                SubSeq(pieces, 1, Len(pieces) - 1), socket, now)

\* the data handler of socket, whose closure holds peerId and buffer, on one
\* read: buffer += data.toString(), buffer.split('\n'), then the loop
onData(n, socket, peerId, buffer, data, now) ==
    onLines(n, socket, peerId, split(buffer \o toString(data), <<>>), now)

\* a closure of handleConnection
NoSocket == [open |-> FALSE, peerId |-> <<>>, buffer |-> <<>>]

\* the messages written to the sockets, as the set sent keeps them
SentOf(written) ==
    UNION { { Msg(c, written[c][k].type.s, written[c][k].data) :
                k \in 1..Len(written[c]) } : c \in Conns }

\* a connection is established on socket: handleConnection makes the
\* closure, registers the handlers and writes the HANDSHAKE
Connect(socket) ==
    /\ ~socks[socket].open
    /\ socks' = [socks EXCEPT ![socket] = [NoSocket EXCEPT !.open = TRUE]]
    /\ sent' = { Msg(socket, "HANDSHAKE", [port |-> PortOf(NodeId), nodeId |-> NodeId]) }
    /\ call' = [NoCall EXCEPT !.op = "handleConnection", !.conn = socket]
    /\ UNCHANGED <<chain, fileIndex, peers, disk, appended, accounts, remote, wire, peerInfo,
                   fileTransfers, request>>

\* the node after the data handler of socket ended with outcome r
Commit(socket, data, r) ==
    /\ chain' = r.n.chain
    /\ fileIndex' = r.n.fileIndex
    /\ peers' = r.n.peers
    /\ peerInfo' = r.n.peerInfo
    /\ fileTransfers' = r.n.fileTransfers
    /\ disk' = r.n.disk
    /\ request' = r.n.request
    /\ socks' = [socks EXCEPT ![socket].peerId = r.peerId,
                              ![socket].buffer = r.buffer]
    /\ sent' = SentOf(r.n.written)
    /\ call' = [NoCall EXCEPT !.op = "data", !.conn = socket,
                              !.arg = [data |-> data, trace |-> r.trace,
                                       written |-> r.n.written,
                                       handed |-> r.n.handed]]

\* the 'data' event of socket with one read
Data(socket, data, now) ==
    /\ socks[socket].open
    /\ Commit(socket, data,
              onData(NodeState, socket, socks[socket].peerId,
                     socks[socket].buffer, data, now))
    /\ UNCHANGED <<appended, accounts, remote, wire>>

\* the 'close' event of socket: the peer of its closure leaves both maps
Close(socket) ==
    /\ socks[socket].open
    /\ LET peerId == socks[socket].peerId
           without(m) == [k \in (DOMAIN m) \ {peerId[1]} |-> m[k]]
       IN  /\ peers' = IF peerId = <<>> THEN peers ELSE without(peers)
           /\ peerInfo' = IF peerId = <<>> THEN peerInfo ELSE without(peerInfo)
    /\ socks' = [socks EXCEPT ![socket] = NoSocket]
    /\ sent' = {}
    /\ call' = [NoCall EXCEPT !.op = "close", !.conn = socket]
    /\ UNCHANGED <<chain, fileIndex, disk, appended, accounts, remote, wire, fileTransfers,
                   request>>


\* HandshakeData of peer id
HandshakeData(id) == Obj([port |-> PortOf(id), nodeId |-> id])

\* the sessions are followed while the chain has up to this many blocks
MaxSessionChain == 2

\* the node at the other end of socket
PeerOf(socket) == IF socket = "c1" THEN "p1" ELSE "p2"

\* lines peer id can write while the chain is c.  Well-formed messages: its
\* HANDSHAKE, the two queries, a block attached to the local tip and a
\* request for a stored file
GoodLines(c, id) ==
    { Stringify(Message("HANDSHAKE", id, HandshakeData(id), "")) }
    \cup { Stringify(Message(type, id, Null, "")) :
              type \in {"QUERY_ALL", "QUERY_LATEST"} }
    \cup { Stringify(Message("BROADCAST_BLOCK", id, Obj(b), "")) :
              b \in { x \in Attached(c) :
                        x.data.type = "REGISTER" /\ Len(c) < MaxSessionChain } }
    \cup { Stringify(Message("REQUEST_FILE", id, Obj([fileId |-> "f1"]), "")) }

\* envelopes with a string type, a string sender and a numeric timestamp
\* whose data is null where the type requires an object or an array
NullDataLines(id) ==
    { Stringify(Message(type, id, Null, "")) :
        type \in {"HANDSHAKE", "BROADCAST_BLOCK", "RESPONSE_BLOCKCHAIN",
                  "REQUEST_FILE", "RESPONSE_FILE"} }

\* JSON values that are not a P2PMessage: an object without type, with a
\* numeric sender, with a string timestamp; null; a number
InvalidLines ==
    { Stringify(Envelope(Undefined, Str("p1"), Num(1), Null, "")),
      Stringify(Envelope(Str("QUERY_ALL"), Num(1), Num(1), Null, "")),
      Stringify(Envelope(Str("QUERY_ALL"), Str("p1"), Str("1"), Null, "")),
      Stringify(Null),
      Stringify(Num(5)) }

\* lines that are not JSON: an object cut short, two values on one line
SyntaxLines ==
    { <<LBrace>>, Stringify(Num(5)) \o Stringify(Num(5)) }

DroppedLines(id) == NullDataLines(id) \cup InvalidLines \cup SyntaxLines

\* the line that follows another line in the same read
SecondLines(id) ==
    { Stringify(Message("QUERY_ALL", id, Null, "")) }

\* the bytes of the lines of one read
ReadOf(lines) ==
    Utf8(concat([k \in 1..Len(lines) |-> lines[k] \o <<LF>>]))

\* what one read from peer id holds: one line, or two lines, each with its
\* newline
Reads(c, id) ==
    LET first == GoodLines(c, id) \cup DroppedLines(id) \cup { <<Space>> }
    IN  { Utf8(l \o <<LF>>) : l \in first }
        \cup { Utf8(l \o <<LF>> \o m \o <<LF>>) :
                  l \in first, m \in SecondLines(id) }

InitSession ==
    /\ appended = {}
    /\ accounts = EmptyMap
    /\ remote = <<>>
    /\ wire = NoWire
    /\ chain = NewBlockchain.chain
    /\ fileIndex = NewBlockchain.fileIndex
    /\ disk = <<>>
    /\ peers = EmptyMap
    /\ peerInfo = EmptyMap
    /\ socks = [c \in Conns |-> NoSocket]
    /\ fileTransfers = EmptyMap
    /\ request = <<>>
    /\ feed = EmptyMap
    /\ log = <<>>
    /\ sent = {}
    /\ call = NoCall

NextSession ==
    \/ \E socket \in Conns : Connect(socket) /\ UNCHANGED <<feed, log>>
    \/ \E socket \in Conns, now \in NodeTimes :
          /\ \E data \in Reads(chain, PeerOf(socket)) : Data(socket, data, now)
          /\ UNCHANGED <<feed, log>>
    \/ \E socket \in Conns : Close(socket) /\ UNCHANGED <<feed, log>>
    \/ /\ Len(chain) < MaxSessionChain
       /\ \E data \in RegisterDatas(chain), now \in NodeTimes : Register(data, now)
       /\ UNCHANGED netVars

SpecSession == InitSession /\ [][NextSession]_vars

----------------------------------------------------------------------------
(* Framing: each peer writes a stream of messages, and the bytes reach the  *)
(* data handler in reads of any length.                                     *)

\* a stream holds up to this many messages
MaxMessages == 2

\* the messages peer id writes to a node with chain c: its HANDSHAKE, a
\* QUERY_LATEST, and the last block of c once more (as a block comes back in
\* a cyclic peer graph), whose filename has a character of two bytes
FramedMessages(c, id) ==
    { Message("HANDSHAKE", id, HandshakeData(id), ""),
      Message("QUERY_LATEST", id, Null, ""),
      Message("BROADCAST_BLOCK", id, Obj(getLatestBlock(c)), "aE9") }

\* the sequences of 1..n elements of S
RECURSIVE SeqsUpTo(_, _)
SeqsUpTo(S, n) ==
    IF n = 0 THEN { <<>> }
    ELSE LET shorter == SeqsUpTo(S, n - 1)
         IN  shorter \cup { Append(q, x) : q \in shorter, x \in S }

\* what socket.write has put on the connection for the messages, in order
StreamOf(messages) ==
    Utf8(concat([k \in 1..Len(messages) |-> Stringify(messages[k]) \o <<LF>>]))

\* the node holds a chain of two blocks; both sockets are open; the peer of
\* c1 writes up to MaxMessages messages, the peer of c2 at most one query
InitFraming ==
    /\ appended = {}
    /\ accounts = EmptyMap
    /\ remote = <<>>
    /\ wire = NoWire
    /\ chain \in { c \in RemoteChains : Len(c) = 2 /\ c[2].data.type = "REGISTER" }
    /\ fileIndex = rebuildIndex(chain)
    /\ disk = chain
    /\ peers = EmptyMap
    /\ peerInfo = EmptyMap
    /\ socks = [c \in Conns |-> [NoSocket EXCEPT !.open = TRUE]]
    /\ fileTransfers = EmptyMap
    /\ request = <<>>
    /\ \E m1 \in SeqsUpTo(FramedMessages(chain, "p1"), MaxMessages) \ { <<>> },
          m2 \in { <<>>, << Message("QUERY_LATEST", "p2", Null, "") >> } :
          /\ log = [stream |-> [c \in Conns |-> IF c = "c1" THEN m1 ELSE m2],
                    dispatched |-> [c \in Conns |-> <<>>],
                    order |-> <<>>]
          /\ feed = [c \in Conns |-> StreamOf(IF c = "c1" THEN m1 ELSE m2)]
    /\ sent = {}
    /\ call = NoCall

\* the messages handed to handleMessage, in the order of the trace
RECURSIVE DispatchedIn(_)
DispatchedIn(trace) ==
    IF trace = <<>> THEN <<>>
    ELSE (IF trace[1].what \in {"handled", "threw"} THEN trace[1].message ELSE <<>>)
           \o DispatchedIn(Tail(trace))

\* the next k bytes of the stream of socket reach the data handler
ReadSome(socket, k, now) ==
    /\ k \in 1..Len(feed[socket])
    /\ Data(socket, SubSeq(feed[socket], 1, k), now)
    /\ feed' = [feed EXCEPT ![socket] = SubSeq(@, k + 1, Len(@))]
    /\ log' = [log EXCEPT
                 !.dispatched[socket] = @ \o DispatchedIn(call'.arg.trace),
                 !.order = @ \o [j \in 1..Len(DispatchedIn(call'.arg.trace))
                                   |-> socket]]

NextFraming ==
    \E socket \in Conns, now \in NodeTimes :
        \E k \in 1..Len(feed[socket]) : ReadSome(socket, k, now)

SpecFraming == InitFraming /\ [][NextFraming]_vars

----------------------------------------------------------------------------
(* File transfer: the node downloads a file that its two peers hold.        *)

\* a file has up to this many bytes
MaxFileLen == 3

\* the node handles up to this many downloads
MaxDownloads == 1

\* the file of the given length, as every peer stores it
FileBytes(len) == [k \in 1..len |-> k]

\* the RESPONSE_FILE lines that the peer behind socket writes for the chunks
ChunkLines(socket, chunks) ==
    [k \in 1..Len(chunks) |->
        Stringify(Message("RESPONSE_FILE", PeerOf(socket), Obj(chunks[k]), ""))]

\* the node holds a chain whose last block registers the file, and has
\* handled the HANDSHAKE of both peers; nothing is being downloaded
InitTransfer ==
    /\ appended = {}
    /\ accounts = EmptyMap
    /\ remote = <<>>
    /\ wire = NoWire
    /\ chain \in { c \in RemoteChains : Len(c) = 2 /\ c[2].data.type = "REGISTER" }
    /\ fileIndex = rebuildIndex(chain)
    /\ disk = chain
    /\ peers = [id \in {"p1", "p2"} |-> IF id = "p1" THEN "c1" ELSE "c2"]
    /\ peerInfo = [id \in {"p1", "p2"} |->
                     [host |-> HostOf(IF id = "p1" THEN "c1" ELSE "c2"),
                      port |-> PortOf(id), id |-> id, lastSeen |-> 2]]
    /\ socks = [c \in Conns |-> [open |-> TRUE, peerId |-> <<PeerOf(c)>>,
                                 buffer |-> <<>>]]
    /\ fileTransfers = EmptyMap
    /\ request = <<>>
    /\ feed = [c \in Conns |-> <<>>]
    /\ \E len \in 0..MaxFileLen :
          log = [file |-> FileBytes(len),
                 asked |-> [c \in Conns |-> 0],
                 sends |-> <<>>,
                 from |-> <<>>,
                 handed |-> <<>>,
                 closed |-> {},
                 downloads |-> 0]
    /\ sent = {}
    /\ call = NoCall

\* requestFile(fileId, peerId)
requestFile(n, fileId, peerId) ==
    IF peerId \in DOMAIN n.peers
    THEN Send(n, n.peers[peerId],
              Message("REQUEST_FILE", NodeId, Obj([fileId |-> fileId]), ""))
    ELSE n

\* for (const peer of peers) p2pNode.requestFile(fileId, peer.id)
RECURSIVE requestAll(_, _, _)
requestAll(n, fileId, ids) ==
    IF ids = {} THEN n
    ELSE LET id == CHOOSE x \in ids : TRUE
         IN  requestAll(requestFile(n, fileId, id), fileId, ids \ {id})

\* handleDownloadFromNetwork for a file of the chain that is not stored
\* locally, up to the await: 503 without connected peers; else the timer
\* is started, onFileReceived is set and every peer is asked
StartDownload(fileId) ==
    /\ log.downloads < MaxDownloads
    /\ IF request = <<>> THEN TRUE ELSE request[1].state # "pending"
    /\ findFile(fileIndex, fileId) # <<>>
    /\ IF DOMAIN peerInfo = {}
       THEN /\ request' = << [fileId |-> fileId,
                              listening |-> request # <<>> /\ request[1].listening,
                              timer |-> FALSE, state |-> "unavailable",
                              data |-> <<>>] >>
            /\ sent' = {}
            /\ call' = [NoCall EXCEPT !.op = "download", !.arg = fileId]
            /\ log' = [log EXCEPT !.downloads = @ + 1]
       ELSE LET n == requestAll(NodeState, fileId, DOMAIN peerInfo)
            IN  /\ request' = << [fileId |-> fileId, listening |-> TRUE,
                                  timer |-> TRUE, state |-> "pending",
                                  data |-> <<>>] >>
                /\ sent' = SentOf(n.written)
                /\ call' = [NoCall EXCEPT !.op = "download", !.arg = fileId]
                /\ log' = [log EXCEPT
                             !.downloads = @ + 1,
                             !.asked = [c \in Conns |->
                                          @[c] + Len(n.written[c])]]
    /\ UNCHANGED <<chain, fileIndex, peers, disk, appended, accounts, remote, wire,
                   peerInfo, socks, fileTransfers, feed>>

\* the peer behind socket handles a REQUEST_FILE: its onFileRequested calls
\* sendFile when it stores the file, and does nothing when it does not
Respond(socket, stores) ==
    /\ socks[socket].open
    /\ log.asked[socket] > 0
    /\ LET chunks == IF stores THEN sendFile(request[1].fileId, log.file)
                     ELSE <<>>
       IN  /\ feed' = [feed EXCEPT ![socket] = @ \o ChunkLines(socket, chunks)]
           /\ call' = [NoCall EXCEPT !.op = "sendFile", !.conn = socket,
                                     !.arg = chunks, !.ret = stores]
    /\ log' = [log EXCEPT !.asked[socket] = @ - 1,
                          !.sends = IF stores THEN Append(@, socket) ELSE @]
    /\ sent' = {}
    /\ UNCHANGED <<chain, fileIndex, peers, disk, appended, accounts, remote, wire,
                   peerInfo, socks, fileTransfers, request>>

\* how many chunks the transfer of fileId holds
ChunksHeld(transfers, fileId) ==
    IF fileId \in DOMAIN transfers THEN Len(transfers[fileId].chunks) ELSE 0

\* the next k lines written by the peer behind socket reach the data
\* handler in one read
Deliver(socket, k, now) ==
    /\ k \in 1..Len(feed[socket])
    /\ Data(socket, ReadOf(SubSeq(feed[socket], 1, k)), now)
    /\ feed' = [feed EXCEPT ![socket] = SubSeq(@, k + 1, Len(@))]
    /\ log' = [log EXCEPT
                 !.handed = @ \o call'.arg.handed,
                 !.from = IF call'.arg.handed = <<>>
                          THEN @ \o [j \in 1..k |-> socket]
                          ELSE [j \in 1..ChunksHeld(fileTransfers',
                                                    request[1].fileId)
                                  |-> socket]]

\* the connection of socket closes: what the peer has written and the node
\* has not read is lost, and so are the requests the peer has not handled
CloseSocket(socket) ==
    /\ Close(socket)
    /\ feed' = [feed EXCEPT ![socket] = <<>>]
    /\ log' = [log EXCEPT !.asked[socket] = 0, !.closed = @ \cup {socket}]

\* a timer that is cleared without rejecting the promise
TimeoutLost ==
    /\ request # <<>>
    /\ request[1].timer
    /\ request' = << [request[1] EXCEPT !.timer = FALSE] >>
    /\ sent' = {}
    /\ call' = [NoCall EXCEPT !.op = "timeout"]
    /\ UNCHANGED <<chain, fileIndex, peers, disk, appended, accounts, remote, wire,
                   peerInfo, socks, fileTransfers, feed, log>>

\* the timer of the download fires after 30000 ms: reject, which settles
\* the promise when it is still pending (504)
Timeout ==
    /\ request # <<>>
    /\ request[1].timer
    /\ request' = << [request[1] EXCEPT
                        !.timer = FALSE,
                        !.state = IF @ = "pending" THEN "failed" ELSE @] >>
    /\ sent' = {}
    /\ call' = [NoCall EXCEPT !.op = "timeout"]
    /\ UNCHANGED <<chain, fileIndex, peers, disk, appended, accounts, remote, wire,
                   peerInfo, socks, fileTransfers, feed, log>>

NextTransfer ==
    \/ StartDownload(getLatestBlock(chain).data.file.id)
    \/ \E socket \in Conns, stores \in BOOLEAN : Respond(socket, stores)
    \/ \E socket \in Conns, now \in NodeTimes :
          \E k \in 1..2 : Deliver(socket, k, now)
    \/ \E socket \in Conns : CloseSocket(socket)
    \/ Timeout

SpecTransfer == InitTransfer /\ [][NextTransfer]_vars

\* the timer of a download fires unless it is cleared
SpecDownload == SpecTransfer /\ WF_vars(Timeout)

----------------------------------------------------------------------------
(* Two downloads at a time: the node asks its peer for two files.           *)

\* the chains of a node that has registered the two files
TwoFileChains ==
    { c \in GrowChains({ <<createGenesisBlock>> }, 2,
                       { BlockData("REGISTER", "f1", 1),
                         BlockData("REGISTER", "f2", 1) }) :
        /\ Len(c) = 3
        /\ c[2].data.file.id # c[3].data.file.id
        /\ \A i \in 2..3 : startsWithZeros(c[i].hash, difficulty) }

\* the node holds a chain that registers f1 and f2 and has handled the
\* HANDSHAKE of the peer p1, which stores both files; nothing is being
\* downloaded
InitConcurrent ==
    /\ appended = {}
    /\ accounts = EmptyMap
    /\ remote = <<>>
    /\ wire = NoWire
    /\ chain \in TwoFileChains
    /\ fileIndex = rebuildIndex(chain)
    /\ disk = chain
    /\ peers = [id \in {"p1"} |-> "c1"]
    /\ peerInfo = [id \in {"p1"} |->
                     [host |-> HostOf("c1"), port |-> PortOf(id), id |-> id,
                      lastSeen |-> 2]]
    /\ socks = [c \in Conns |->
                  IF c = "c1" THEN [open |-> TRUE, peerId |-> <<"p1">>,
                                    buffer |-> <<>>]
                  ELSE NoSocket]
    /\ fileTransfers = EmptyMap
    /\ request = <<>>
    /\ feed = [c \in Conns |-> <<>>]
    /\ \E len1, len2 \in 1..MaxFileLen :
          /\ len1 # len2
          /\ log = [files |-> [id \in FileIds |->
                                 FileBytes(IF id = "f1" THEN len1 ELSE len2)],
                    asked |-> [c \in Conns |-> <<>>],
                    unread |-> [c \in Conns |-> <<>>],
                    complete |-> {}]
    /\ sent = {}
    /\ call = NoCall

\* handleDownloadFromNetwork for a file of the chain that is not stored
\* locally, up to the await, while earlier requests may be waiting: the
\* callback of this request takes the place of the one in onFileReceived
StartAlongside(fileId) ==
    /\ \A i \in 1..Len(request) : request[i].fileId # fileId
    /\ findFile(fileIndex, fileId) # <<>>
    /\ IF DOMAIN peerInfo = {}
       THEN /\ request' = Append(request,
                                 [fileId |-> fileId, listening |-> FALSE,
                                  timer |-> FALSE, state |-> "unavailable",
                                  data |-> <<>>])
            /\ sent' = {}
            /\ log' = log
       ELSE LET n == requestAll(NodeState, fileId, DOMAIN peerInfo)
            IN  /\ request' =
                      Append([i \in 1..Len(request) |->
                                [request[i] EXCEPT !.listening = FALSE]],
                             [fileId |-> fileId, listening |-> TRUE,
                              timer |-> TRUE, state |-> "pending",
                              data |-> <<>>])
                /\ sent' = SentOf(n.written)
                /\ log' = [log EXCEPT
                             !.asked = [c \in Conns |->
                                          @[c] \o [k \in 1..Len(n.written[c])
                                                    |-> fileId]]]
    /\ call' = [NoCall EXCEPT !.op = "download", !.arg = fileId]
    /\ UNCHANGED <<chain, fileIndex, peers, disk, appended, accounts, remote, wire,
                   peerInfo, socks, fileTransfers, feed>>

\* the peer behind socket handles the oldest REQUEST_FILE it has: its
\* onFileRequested calls sendFile with the file it stores
Serve(socket) ==
    /\ socks[socket].open
    /\ log.asked[socket] # <<>>
    /\ LET fileId == Head(log.asked[socket])
           chunks == sendFile(fileId, log.files[fileId])
       IN  /\ feed' = [feed EXCEPT ![socket] = @ \o ChunkLines(socket, chunks)]
           /\ call' = [NoCall EXCEPT !.op = "sendFile", !.conn = socket,
                                     !.arg = chunks, !.ret = TRUE]
           /\ log' = [log EXCEPT
                        !.asked[socket] = Tail(@),
                        !.unread[socket] = @ \o [k \in 1..Len(chunks) |-> fileId]]
    /\ sent' = {}
    /\ UNCHANGED <<chain, fileIndex, peers, disk, appended, accounts, remote, wire,
                   peerInfo, socks, fileTransfers, request>>

\* the next k lines written by the peer behind socket reach the data
\* handler in one read; a file is complete when its last line is read
Receive(socket, k, now) ==
    /\ k \in 1..Len(feed[socket])
    /\ Data(socket, ReadOf(SubSeq(feed[socket], 1, k)), now)
    /\ feed' = [feed EXCEPT ![socket] = SubSeq(@, k + 1, Len(@))]
    /\ LET unread == log.unread[socket]
       IN  log' = [log EXCEPT
                     !.unread[socket] = SubSeq(unread, k + 1, Len(unread)),
                     !.complete =
                        @ \cup ({ unread[j] : j \in 1..k }
                                  \ { unread[j] : j \in (k + 1)..Len(unread) })]

\* the timer of the i-th request fires after 30000 ms: reject, which
\* settles the promise when it is still pending (504)
TimeoutOf(i) ==
    /\ i \in 1..Len(request)
    /\ request[i].timer
    /\ request' = [request EXCEPT
                     ![i] = [@ EXCEPT !.timer = FALSE,
                                      !.state = IF @ = "pending" THEN "failed"
                                                ELSE @]]
    /\ sent' = {}
    /\ call' = [NoCall EXCEPT !.op = "timeout", !.arg = i]
    /\ UNCHANGED <<chain, fileIndex, peers, disk, appended, accounts, remote, wire,
                   peerInfo, socks, fileTransfers, feed, log>>

NextConcurrent ==
    \/ \E fileId \in FileIds : StartAlongside(fileId)
    \/ \E socket \in Conns : Serve(socket)
    \/ \E socket \in Conns, now \in NodeTimes :
          \E k \in 1..2 : Receive(socket, k, now)
    \/ \E i \in 1..2 : TimeoutOf(i)

SpecConcurrent == InitConcurrent /\ [][NextConcurrent]_vars

----------------------------------------------------------------------------
(* Connections: the node dials its peers, its peers dial the node, and the  *)
(* connections close.                                                       *)

\* the host on which peer id listens, and the key connectToPeer makes of
\* host and port
HostName(id) == IF id = "p1" THEN "h1" ELSE "h2"
PeerKey(id) == HostName(id) \o ":" \o PortOf(id)

\* log.dial holds the last call of connectToPeer while no other step has
\* followed it

\* the sockets that are not in use
FreeSockets == { c \in Conns : ~socks[c].open }

\* connectToPeer that opens the connection although the attempt failed
connectToPeerRetries(known, peerKey, connected, free) ==
    IF peerKey \in known THEN [result |-> "ignored", socket |-> <<>>]
    ELSE [result |-> IF connected THEN "resolved" ELSE "rejected",
          socket |-> << CHOOSE c \in free : TRUE >>]

\* connectToPeer(host, port) with this.peers holding the keys known: nothing
\* when the key is known; else a new socket, on which handleConnection runs
\* when the connection is made, and a rejected promise when it is not
connectToPeer(known, peerKey, connected, free) ==
    IF peerKey \in known THEN [result |-> "ignored", socket |-> <<>>]
    ELSE IF connected
         THEN [result |-> "resolved", socket |-> << CHOOSE c \in free : TRUE >>]
         ELSE [result |-> "rejected", socket |-> <<>>]

InitPeers ==
    /\ appended = {}
    /\ accounts = EmptyMap
    /\ remote = <<>>
    /\ wire = NoWire
    /\ chain = NewBlockchain.chain
    /\ fileIndex = NewBlockchain.fileIndex
    /\ disk = <<>>
    /\ peers = EmptyMap
    /\ peerInfo = EmptyMap
    /\ socks = [c \in Conns |-> NoSocket]
    /\ fileTransfers = EmptyMap
    /\ request = <<>>
    /\ feed = EmptyMap
    /\ log = [addr |-> [c \in Conns |-> ""], who |-> [c \in Conns |-> ""],
              dial |-> <<>>]
    /\ sent = {}
    /\ call = NoCall

\* the node calls connectToPeer with the address of peer id
ConnectToPeer(id, connected) ==
    /\ FreeSockets # {}
    /\ LET r == connectToPeer(DOMAIN peers, PeerKey(id), connected, FreeSockets)
           dial == << [key |-> PeerKey(id), connected |-> connected,
                        result |-> r.result] >>
       IN  IF r.socket # <<>>
           THEN /\ Connect(r.socket[1])
                /\ log' = [log EXCEPT !.addr[r.socket[1]] = PeerKey(id),
                                      !.who[r.socket[1]] = id,
                                      !.dial = dial]
           ELSE /\ call' = [NoCall EXCEPT !.op = "connectToPeer",
                                          !.path = r.result,
                                          !.threw = r.result = "rejected"]
                /\ sent' = {}
                /\ log' = [log EXCEPT !.dial = dial]
                /\ UNCHANGED <<chain, fileIndex, peers, disk, appended, accounts, remote,
                               wire, peerInfo, socks, fileTransfers, request>>
    /\ UNCHANGED feed

\* peer id dials the node: the server of start() calls handleConnection
Accept(socket, id) ==
    /\ Connect(socket)
    /\ log' = [log EXCEPT !.addr[socket] = "", !.who[socket] = id,
                          !.dial = <<>>]
    /\ UNCHANGED feed

\* the HANDSHAKE of the peer at the other end of socket is read
ReadHandshake(socket, now) ==
    /\ log.who[socket] # ""
    /\ Data(socket,
            ReadOf(<< Stringify(Message("HANDSHAKE", log.who[socket],
                                        HandshakeData(log.who[socket]), "")) >>),
            now)
    /\ log' = [log EXCEPT !.dial = <<>>]
    /\ UNCHANGED feed

\* the connection of socket closes
Disconnect(socket) ==
    /\ Close(socket)
    /\ log' = [log EXCEPT !.addr[socket] = "", !.who[socket] = "",
                          !.dial = <<>>]
    /\ UNCHANGED feed

NextPeers ==
    \/ \E id \in PeerIds, connected \in BOOLEAN : ConnectToPeer(id, connected)
    \/ \E socket \in Conns, id \in PeerIds : Accept(socket, id)
    \/ \E socket \in Conns, now \in NodeTimes : ReadHandshake(socket, now)
    \/ \E socket \in Conns : Disconnect(socket)
    \/ /\ Len(chain) < MaxSessionChain
       /\ \E data \in RegisterDatas(chain), now \in NodeTimes : Register(data, now)
       /\ log' = [log EXCEPT !.dial = <<>>]
       /\ UNCHANGED <<appended, accounts, remote, wire, peerInfo, socks, fileTransfers,
                      request, feed>>

SpecPeers == InitPeers /\ [][NextPeers]_vars

----------------------------------------------------------------------------
(* Restart: the server is constructed over the blockchain.json it finds.    *)

\* loadBlockchain with the parsed content of blockchain.json, <<>> when the
\* file does not exist: a new Blockchain, on which replaceChain is called
\* when the stored chain has more than one block
loadBlockchain(stored) ==
    IF Len(stored) > 1
    THEN LET r == replaceChain(NewBlockchain.chain, NewBlockchain.fileIndex, stored)
         IN  [chain |-> r.chain, fileIndex |-> r.fileIndex]
    ELSE NewBlockchain

\* what blockchain.json can hold when the server starts: nothing, a chain a
\* node has saved, or a chain that was altered in the file
StoredChains ==
    { <<>> } \cup PeerChains \cup { <<g>> : g \in AlteredGenesis }

\* the server starts over a stored file; log tells whether the file has
\* been written by saveBlockchain since
InitLoad ==
    /\ appended = {}
    /\ accounts = EmptyMap
    /\ remote = <<>>
    /\ wire = NoWire
    /\ disk \in StoredChains
    /\ chain = loadBlockchain(disk).chain
    /\ fileIndex = loadBlockchain(disk).fileIndex
    /\ peers = EmptyMap
    /\ peerInfo = EmptyMap
    /\ socks = EmptyMap
    /\ fileTransfers = EmptyMap
    /\ request = <<>>
    /\ feed = EmptyMap
    /\ log = [saved |-> FALSE]
    /\ sent = {}
    /\ call = NoCall

\* the server is stopped and constructed again
Restart ==
    /\ chain' = loadBlockchain(disk).chain
    /\ fileIndex' = loadBlockchain(disk).fileIndex
    /\ sent' = {}
    /\ call' = [NoCall EXCEPT !.op = "loadBlockchain", !.arg = disk]
    /\ UNCHANGED <<peers, disk, netVars>>

\* a registration, which saves the chain
RegisterAndSave(data, now) ==
    /\ Register(data, now)
    /\ log' = [saved |-> log.saved \/ ~call'.threw]
    /\ UNCHANGED <<appended, accounts, remote, wire, peerInfo, socks, fileTransfers,
                   request, feed>>

NextLoad ==
    \/ Restart
    \/ \E data \in RegisterDatas(chain), now \in NodeTimes :
          RegisterAndSave(data, now)

SpecLoad == InitLoad /\ [][NextLoad]_vars

----------------------------------------------------------------------------
(* The incentive accounts: rewards and withdrawals of tokens.               *)

\* an account earns, and withdraws, up to this many tokens
MaxBalance == 3

\* a JavaScript number: an integer or NaN
Finite(n) == [nan |-> FALSE, n |-> n]
NaN == [nan |-> TRUE, n |-> 0]

\* a <= b, a < b, a + b and a - b on numbers: a comparison with NaN is
\* false, a sum or difference with NaN is NaN
LessEq(a, b) == ~a.nan /\ ~b.nan /\ a.n <= b.n
Less(a, b) == ~a.nan /\ ~b.nan /\ a.n < b.n
Plus(a, b) == IF a.nan \/ b.nan THEN NaN ELSE Finite(a.n + b.n)
Minus(a, b) == IF a.nan \/ b.nan THEN NaN ELSE Finite(a.n - b.n)

\* getOrCreateAccount(nodeId) at time now: the accounts, with a new account
\* of no tokens when the node has none
getOrCreateAccount(accts, nodeId, now) ==
    IF nodeId \in DOMAIN accts THEN accts
    ELSE MapSet(accts, nodeId,
                [nodeId |-> nodeId, balance |-> Finite(0),
                 totalEarned |-> Finite(0), totalWithdrawn |-> Finite(0),
                 lastUpdated |-> now])

\* issueReward(type, nodeId, amount, ...) at time now, on the accounts
issueReward(accts, nodeId, amount, now) ==
    LET created == getOrCreateAccount(accts, nodeId, now)
    IN  [created EXCEPT ![nodeId].balance = Plus(@, amount),
                        ![nodeId].totalEarned = Plus(@, amount),
                        ![nodeId].lastUpdated = now]

\* withdraw(amount) at time now, on the accounts of the manager of
\* localNodeId
withdraw(accts, localNodeId, amount, now) ==
    LET created == getOrCreateAccount(accts, localNodeId, now)
        account == created[localNodeId]
    IN  IF LessEq(amount, Finite(0))
        THEN [accounts |-> created, success |-> FALSE, error |-> "Invalid amount"]
        ELSE IF Less(account.balance, amount)
        THEN [accounts |-> created, success |-> FALSE,
              error |-> "Insufficient balance"]
        ELSE [accounts |-> [created EXCEPT
                              ![localNodeId].balance = Minus(@, amount),
                              ![localNodeId].totalWithdrawn = Plus(@, amount),
                              ![localNodeId].lastUpdated = now],
              success |-> TRUE, error |-> ""]

\* the amounts of the rewards, and the amounts a caller asks to withdraw
RewardAmounts == { Finite(1), Finite(2) }
WithdrawAmounts == { Finite(n) : n \in -1..(MaxBalance + 1) } \cup { NaN }

\* a new IncentiveManager without stored accounts
InitIncentive ==
    /\ NoNet
    /\ chain = NewBlockchain.chain
    /\ fileIndex = NewBlockchain.fileIndex
    /\ peers = EmptyMap
    /\ disk = <<>>
    /\ sent = {}
    /\ call = NoCall

\* a reward is issued to a node
IssueReward(nodeId, amount, now) ==
    /\ nodeId \in DOMAIN accounts =>
          accounts[nodeId].totalEarned.n + amount.n <= MaxBalance
    /\ accounts' = issueReward(accounts, nodeId, amount, now)
    /\ call' = [NoCall EXCEPT !.op = "issueReward", !.arg = amount,
                              !.sender = nodeId, !.now = now]
    /\ UNCHANGED <<chain, fileIndex, peers, disk, sent, appended, remote, wire,
                   peerInfo, sessVars>>

\* the local node withdraws
Withdraw(amount, now) ==
    /\ LET r == withdraw(accounts, NodeId, amount, now)
       IN  /\ r.accounts[NodeId].totalWithdrawn.nan
                 \/ r.accounts[NodeId].totalWithdrawn.n <= MaxBalance
           /\ accounts' = r.accounts
           /\ call' = [NoCall EXCEPT !.op = "withdraw", !.arg = amount,
                                     !.now = now, !.ret = r.success,
                                     !.path = r.error]
    /\ UNCHANGED <<chain, fileIndex, peers, disk, sent, appended, remote, wire,
                   peerInfo, sessVars>>

NextIncentive ==
    \/ \E nodeId \in {NodeId, RemoteId}, amount \in RewardAmounts, now \in Times :
          IssueReward(nodeId, amount, now)
    \/ \E amount \in WithdrawAmounts, now \in Times : Withdraw(amount, now)

SpecIncentive == InitIncentive /\ [][NextIncentive]_vars

----------------------------------------------------------------------------
(* Properties of the node                                                    *)

\* the sockets of the peers map
PeerSockets == { peers[p] : p \in DOMAIN peers }

\* C11: when the node has handled a BROADCAST_BLOCK that attaches cleanly to
\* its tip it has appended a block with the received payload, and it has
\* sent a BROADCAST_BLOCK of the received block to every connected peer
\* except the one the message came from, and to no other destination.
C11_RebroadcastExceptSource ==
    (call.op = "BROADCAST_BLOCK" /\ call.path = "append") =>
        /\ { m.to : m \in sent } = PeerSockets \ {call.conn}
        /\ \A m \in sent :
              /\ m.type = "BROADCAST_BLOCK"
              /\ m.data[1].data = getLatestBlock(chain).data

\* whether a received block attaches cleanly to the tip of c
Attaches(block, c) ==
    /\ block.previousHash = getLatestBlock(c).hash
    /\ block.index = getLatestBlock(c).index + 1

\* C13: handling a BROADCAST_BLOCK that does not attach cleanly leaves the
\* chain and the index unchanged; when the block's index is greater than the
\* tip's, exactly one QUERY_ALL is sent, on the connection the block arrived
\* on; when it is not greater, nothing is sent.
C13_AheadBlockQueriesSender ==
    [][ (/\ call'.op = "BROADCAST_BLOCK"
         /\ ~Attaches(call'.arg, chain)) =>
           /\ chain' = chain /\ fileIndex' = fileIndex
           /\ sent' = IF call'.arg.index > getLatestBlock(chain).index
                      THEN { Msg(call'.conn, "QUERY_ALL", <<>>) }
                      ELSE {} ]_vars

\* a block two ahead of the tip arrived on c2 and one QUERY_ALL went to c2
C13_Witness ==
    /\ call.op = "BROADCAST_BLOCK" /\ call.conn = "c2"
    /\ call.arg.index = getLatestBlock(chain).index + 2
    /\ sent = { Msg("c2", "QUERY_ALL", <<>>) }

\* C12: a block that the node has appended from a BROADCAST_BLOCK never
\* attaches to its tip again, and every later delivery of it leaves the
\* chain and the index unchanged, appends nothing and re-broadcasts nothing.
C12_DuplicateDeliveryIgnored ==
    [][ /\ \A b \in appended' : ~Attaches(b, chain')
        /\ (/\ call'.op = "BROADCAST_BLOCK"
            /\ call'.arg \in appended) =>
               /\ chain' = chain /\ fileIndex' = fileIndex
               /\ appended' = appended
               /\ \A m \in sent' : m.type # "BROADCAST_BLOCK" ]_vars

\* a block appended earlier was delivered again, after a further block was
\* appended, accounts, and was ignored
C12_Witness ==
    /\ call.op = "BROADCAST_BLOCK" /\ call.path = "ignore"
    /\ call.arg \in appended
    /\ Len(chain) = 3
    /\ sent = {}

\* C14: a node that handles a BROADCAST_BLOCK for a block sealed on top of
\* its tip, and seals it, appends directly: no QUERY_ALL is sent, the chain
\* is one block longer, the new block carries the received payload, and
\* findFile of the payload's file id returns a block with that file record.
C14_AttachedBlockAppendedDirectly ==
    [][ (/\ call'.op = "BROADCAST_BLOCK"
         /\ Attaches(call'.arg, chain)
         /\ ~call'.threw) =>
           /\ call'.path = "append"
           /\ Len(chain') = Len(chain) + 1
           /\ SubSeq(chain', 1, Len(chain)) = chain
           /\ getLatestBlock(chain').data = call'.arg.data
           /\ \A m \in sent' : m.type # "QUERY_ALL"
           /\ LET found == findFile(fileIndex', call'.arg.data.file.id)
              IN  /\ found # <<>>
                  /\ found[1].data.file = call'.arg.data.file ]_vars

\* the fresh node took a peer's block on f2 directly: its chain has two
\* blocks and findFile("f2") returns the new one
C14_Witness ==
    /\ call.op = "BROADCAST_BLOCK" /\ call.path = "append"
    /\ Len(chain) = 2
    /\ chain[1] = createGenesisBlock
    /\ call.arg.data.file.id = "f2"
    /\ chain[2].data = call.arg.data
    /\ findFile(fileIndex, "f2") = <<chain[2]>>

\* whether the last block of a handled RESPONSE_BLOCKCHAIN, read is what
\* ReadChain kept of it, is ahead of the tip of c
TipAhead(read, c) ==
    /\ read.len > 0
    /\ read.tip[1].index > getLatestBlock(c).index

\* whether that last block links to the tip of c
TipLinks(read, c) == read.tip[1].previousHash = getLatestBlock(c).hash

\* C15: handling a RESPONSE_BLOCKCHAIN whose last block is ahead of the local
\* tip and links to it appends exactly that block, so that the chain grows
\* by one, without a replace and without sending a query.
C15_FastPathAppendsReceivedTip ==
    [][ (/\ call'.op = "RESPONSE_BLOCKCHAIN"
         /\ TipAhead(call'.arg, chain) /\ TipLinks(call'.arg, chain)
         /\ ~call'.threw) =>
           /\ call'.path = "append"
           /\ chain' = Append(chain, call'.arg.tip[1])
           /\ sent' = {} ]_vars

\* C16: handling a RESPONSE_BLOCKCHAIN of exactly one block that is ahead of
\* the local tip and does not link to it leaves the chain and the index
\* unchanged and sends one QUERY_ALL to every connected peer.
C16_LoneAheadBlockQueriesAll ==
    [][ (/\ call'.op = "RESPONSE_BLOCKCHAIN"
         /\ call'.arg.len = 1
         /\ TipAhead(call'.arg, chain) /\ ~TipLinks(call'.arg, chain)) =>
           /\ chain' = chain /\ fileIndex' = fileIndex
           /\ sent' = { Msg(socket, "QUERY_ALL", <<>>) : socket \in PeerSockets } ]_vars

\* the last block of a peer's chain of three arrived alone at a node with
\* fewer blocks, and a QUERY_ALL went to both peers
C16_Witness ==
    /\ call.op = "RESPONSE_BLOCKCHAIN" /\ call.path = "query"
    /\ call.arg.len = 1 /\ call.arg.tip[1].index = 2
    /\ Len(chain) < 3
    /\ { m.to : m \in sent } = {"c1", "c2"}
    /\ \A m \in sent : m.type = "QUERY_ALL"

\* C17: handling a RESPONSE_BLOCKCHAIN of two or more blocks whose last block
\* is ahead of the local tip and does not link to it attempts replaceChain
\* with the received chain and sends nothing; when the replace fails, the
\* chain and the index are unchanged.
C17_FailedReplaceKeepsChain ==
    [][ (/\ call'.op = "RESPONSE_BLOCKCHAIN"
         /\ call'.arg.len >= 2
         /\ TipAhead(call'.arg, chain) /\ ~TipLinks(call'.arg, chain)) =>
           /\ call'.path = "replace"
           /\ sent' = {}
           /\ IF call'.ret
              THEN /\ Len(chain') = call'.arg.len
                   /\ getLatestBlock(chain') = call'.arg.tip[1]
              ELSE chain' = chain /\ fileIndex' = fileIndex ]_vars

\* a longer chain failed validation at a node that holds indexed blocks of
\* its own: the replace returned false and nothing was sent
C17_Witness ==
    /\ call.op = "RESPONSE_BLOCKCHAIN" /\ call.path = "replace"
    /\ call.checked /\ ~call.valid /\ ~call.ret
    /\ call.arg.len = 3 /\ Len(chain) = 2
    /\ DOMAIN fileIndex # {}
    /\ sent = {}

\* whether the message the node handles in this step is the remote node's
\* RESPONSE_BLOCKCHAIN carrying its whole chain
HandlesFullResponse ==
    /\ NodeId \in wire.open
    /\ wire.nodeRead < Len(wire.in)
    /\ wire'.nodeRead = wire.nodeRead + 1
    /\ wire.in[wire.nodeRead + 1].type = "RESPONSE_BLOCKCHAIN"
    /\ wire.in[wire.nodeRead + 1].data = remote

\* whether the node has written a QUERY_ALL to the socket
SentQueryAll ==
    \E k \in 1..Len(wire.out) : wire.out[k].type = "QUERY_ALL"

\* C18: a node two or more blocks behind a peer with a valid chain, that sent
\* QUERY_ALL and handles the peer's RESPONSE_BLOCKCHAIN with the whole chain,
\* invokes replaceChain, which succeeds, and then holds the peer's chain
\* block for block
C18_BehindNodeAdoptsPeerChain ==
    [][ (/\ HandlesFullResponse
         /\ SentQueryAll
         /\ isNewChainValid(remote)
         /\ Len(remote) >= Len(chain) + 2)
        => (/\ call'.op = "RESPONSE_BLOCKCHAIN"
            /\ call'.path = "replace"
            /\ call'.ret
            /\ chain' = remote
            /\ \A i \in 1..Len(remote) :
                  /\ chain'[i].hash = remote[i].hash
                  /\ chain'[i].nonce = remote[i].nonce
                  /\ chain'[i].timestamp = remote[i].timestamp
                  /\ chain'[i].data = remote[i].data) ]_vars

C18_Witness ==
    /\ call.op = "RESPONSE_BLOCKCHAIN"
    /\ call.path = "replace"
    /\ call.ret
    /\ call.arg.len = Len(remote)
    /\ Len(remote) = 3
    /\ disk = <<>>
    /\ SentQueryAll
    /\ chain = remote

\* both ends are set up and every message written to the connection has
\* been handled by the other end
Quiet ==
    /\ wire.open = {NodeId, RemoteId}
    /\ wire.nodeRead = Len(wire.in)
    /\ wire.peerRead = Len(wire.out)

\* C19: a node that connected to a peer holding a longer valid chain, one
\* block ahead or more, holds a chain equal to the peer's chain once the
\* HANDSHAKE, QUERY_ALL and RESPONSE_BLOCKCHAIN messages of both ends have
\* all been handled (no mining having given up on the way)
C19_NewNodeHoldsPeerChain ==
    (Quiet /\ ~call.threw) => chain = remote

\* the HANDSHAKE of node id: its listening port and its node id
HandshakeOf(id) ==
    WireMsg("HANDSHAKE", [port |-> PortOf(id), nodeId |-> id], id)

\* C20: on a connection, whichever node dialled, each end writes its own
\* HANDSHAKE with its listening port and node id as its first message, as
\* soon as the end is set up and whether or not the other end has written
\* anything; an end that is not set up has written nothing
C20_HandshakeFirstUnprompted ==
    /\ IF NodeId \in wire.open
       THEN Len(wire.out) >= 1 /\ wire.out[1] = HandshakeOf(NodeId)
       ELSE wire.out = <<>>
    /\ IF RemoteId \in wire.open
       THEN Len(wire.in) >= 1 /\ wire.in[1] = HandshakeOf(RemoteId)
       ELSE wire.in = <<>>

\* both ends have written their HANDSHAKE before either has read a message
C20_Witness ==
    /\ wire.open = {NodeId, RemoteId}
    /\ wire.dialer = RemoteId
    /\ wire.nodeRead = 0
    /\ wire.peerRead = 0
    /\ wire.out = << HandshakeOf(NodeId) >>
    /\ wire.in = << HandshakeOf(RemoteId) >>

----------------------------------------------------------------------------
(* Properties of the sessions *)

\* the HANDSHAKE and the QUERY_ALL of the peer at the other end of socket
HandshakeLine(socket) ==
    Stringify(Message("HANDSHAKE", PeerOf(socket),
                      HandshakeData(PeerOf(socket)), ""))
QueryAllLine(socket) == Stringify(Message("QUERY_ALL", PeerOf(socket), Null, ""))

\* how many messages of the given type the sequence holds
CountType(messages, type) ==
    Cardinality({ k \in 1..Len(messages) : messages[k].type.s = type })

\* C21: a node that handles a HANDSHAKE has the sender in peers with the
\* socket it arrived on and in peerInfo with the advertised port, has written
\* exactly one QUERY_ALL, on that socket and as the first thing after the
\* HANDSHAKE, whatever the length of its chain, and has the chain, the index
\* and blockchain.json it had before
C21_HandshakeRecordsPeerAndQueries ==
    [][ \A socket \in Conns :
          (/\ call'.op = "data"
           /\ call'.conn = socket
           /\ call'.arg.data \in { ReadOf(<<HandshakeLine(socket)>>),
                                   ReadOf(<<HandshakeLine(socket),
                                            QueryAllLine(socket)>>) })
          => (/\ PeerOf(socket) \in DOMAIN peers'
              /\ peers'[PeerOf(socket)] = socket
              /\ PeerOf(socket) \in DOMAIN peerInfo'
              /\ peerInfo'[PeerOf(socket)].port = PortOf(PeerOf(socket))
              /\ peerInfo'[PeerOf(socket)].id = PeerOf(socket)
              /\ call'.arg.written[socket][1]
                    = Message("QUERY_ALL", NodeId, Null, "")
              /\ CountType(call'.arg.written[socket], "QUERY_ALL") = 1
              /\ \A other \in Conns \ {socket} : call'.arg.written[other] = <<>>
              /\ chain' = chain
              /\ fileIndex' = fileIndex
              /\ disk' = disk) ]_vars

\* a HANDSHAKE handled by a node whose chain has two blocks
C21_Witness ==
    /\ call.op = "data"
    /\ call.arg.data = ReadOf(<<HandshakeLine("c2")>>)
    /\ Len(chain) = 2
    /\ peers = [id \in {"p2"} |-> "c2"]
    /\ call.arg.written["c2"] = << Message("QUERY_ALL", NodeId, Null, "") >>

QueryLatestLine(socket) ==
    Stringify(Message("QUERY_LATEST", PeerOf(socket), Null, ""))

\* the RESPONSE_BLOCKCHAIN of the node with the given blocks
ResponseWith(blocks) == Message("RESPONSE_BLOCKCHAIN", NodeId, Arr(blocks), "")

\* whether the step leaves the ledger and the peer maps as they were
ReadOnlyStep ==
    /\ chain' = chain
    /\ fileIndex' = fileIndex
    /\ peers' = peers
    /\ peerInfo' = peerInfo
    /\ disk' = disk

\* C22: a QUERY_ALL is answered on the socket it arrived on with one
\* RESPONSE_BLOCKCHAIN holding the whole local chain as it is when the query
\* is handled (after the messages before it in the same read), a
\* QUERY_LATEST with one RESPONSE_BLOCKCHAIN holding the tip block alone;
\* nothing is written to another socket and neither query changes the
\* chain, the index or the peers
C22_QueriesAnsweredReadOnly ==
    [][ \A socket \in Conns :
          (call'.op = "data" /\ call'.conn = socket) =>
            LET data == call'.arg.data
                written == call'.arg.written[socket]
            IN  /\ data = ReadOf(<<QueryAllLine(socket)>>)
                     => (/\ written = << ResponseWith(chain) >>
                         /\ \A other \in Conns \ {socket} :
                               call'.arg.written[other] = <<>>
                         /\ ReadOnlyStep)
                /\ data = ReadOf(<<QueryLatestLine(socket)>>)
                     => (/\ written = << ResponseWith(<<chain[Len(chain)]>>) >>
                         /\ \A other \in Conns \ {socket} :
                               call'.arg.written[other] = <<>>
                         /\ ReadOnlyStep)
                /\ (/\ Len(call'.arg.trace) = 2
                    /\ call'.arg.trace[2].what = "handled"
                    /\ call'.arg.trace[2].message[1].type.s = "QUERY_ALL")
                     => (/\ Len(written) >= 1
                         /\ written[Len(written)] = ResponseWith(chain')) ]_vars

\* a QUERY_LATEST and a QUERY_ALL in one read, answered in that order by a
\* node whose chain has two blocks
C22_Witness ==
    /\ call.op = "data"
    /\ call.conn = "c1"
    /\ Len(chain) = 2
    /\ call.arg.data = ReadOf(<<QueryLatestLine("c1"), QueryAllLine("c1")>>)
    /\ call.arg.written["c1"]
         = << ResponseWith(<<chain[2]>>), ResponseWith(chain) >>

\* the sockets whose peer has been recorded by a HANDSHAKE
ConnectedSockets ==
    { c \in Conns : socks[c].open /\ socks[c].peerId # <<>> }

C25_MalformedInputIsDropped ==
    [][ \A socket \in Conns : \A line \in DroppedLines(PeerOf(socket)) :
          (/\ call'.op = "data"
           /\ call'.conn = socket
           /\ call'.arg.data \in { ReadOf(<<line>>),
                                   ReadOf(<<line, QueryAllLine(socket)>>) })
          => (/\ socks'[socket].open
              /\ ~call'.threw
              /\ ReadOnlyStep
              /\ fileTransfers' = fileTransfers
              /\ call'.arg.handed = <<>>
              /\ call'.arg.written[socket]
                    = IF call'.arg.data = ReadOf(<<line>>) THEN <<>>
                      ELSE << ResponseWith(chain) >>) ]_vars

----------------------------------------------------------------------------
(* Properties of the framing *)

\* C24: whatever the reads, the bytes of a stream are at any time those of
\* the messages dispatched so far, each once and in order, then those of the
\* buffered fragment, then those that have not arrived; so when the stream
\* has been read to its end, exactly its messages have been dispatched and
\* the buffer is empty
C24_FramingDispatchesTheMessages ==
    \A c \in Conns :
        /\ StreamOf(log.dispatched[c]) \o Utf8(socks[c].buffer) \o feed[c]
             = StreamOf(log.stream[c])
        /\ feed[c] = <<>> =>
             (log.dispatched[c] = log.stream[c] /\ socks[c].buffer = <<>>)

\* the fields of a message that the handlers read
Core(message) ==
    [type |-> message.type, sender |-> message.sender, data |-> message.data]

\* what a node with chain c writes back to the sender of one of the
\* messages of a stream
ReplyTo(c, message) ==
    CASE message.type.s = "HANDSHAKE" -> << Message("QUERY_ALL", NodeId, Null, "") >>
      [] message.type.s = "QUERY_LATEST" -> << ResponseWith(<<getLatestBlock(c)>>) >>
      [] OTHER -> <<>>

\* C26: the messages handed to handleMessage in one read of a socket are the
\* next messages of the stream of that socket, in the order in which they
\* were written and none left out; what the node writes back is the replies
\* to these messages in the same order, each message being handled to its
\* end before the next; the reads of the sockets interleave in any order and
\* a read of one socket leaves the buffer, the peer id and the messages
\* dispatched of the other socket alone
C26_SessionHandlesInOrder ==
    [][ \A socket \in Conns :
          (call'.op = "data" /\ call'.conn = socket) =>
            LET new == DispatchedIn(call'.arg.trace)
                before == Len(log.dispatched[socket])
            IN  /\ before + Len(new) <= Len(log.stream[socket])
                /\ \A j \in 1..Len(new) :
                      Core(new[j]) = Core(log.stream[socket][before + j])
                /\ call'.arg.written[socket]
                     = concat([j \in 1..Len(new) |-> ReplyTo(chain, new[j])])
                /\ \A other \in Conns \ {socket} :
                      /\ socks'[other] = socks[other]
                      /\ log'.dispatched[other] = log.dispatched[other]
                      /\ call'.arg.written[other] = <<>> ]_vars

\* both streams read to their end, the message of the second socket having
\* been handled between the two messages of the first
C26_Witness ==
    /\ log.order = <<"c1", "c2", "c1">>
    /\ \A c \in Conns : feed[c] = <<>> /\ socks[c].buffer = <<>>
    /\ Len(log.dispatched["c1"]) = 2
    /\ log.dispatched["c1"][1].type.s = "HANDSHAKE"
    /\ log.dispatched["c1"][2].type.s = "QUERY_LATEST"
    /\ call.conn = "c1"
    /\ call.arg.written["c1"] = << ResponseWith(<<getLatestBlock(chain)>>) >>

----------------------------------------------------------------------------
(* Properties of the file transfer *)

\* the bytes of the chunks of RESPONSE_FILE data, in their order
BytesOf(chunks) == concat([k \in 1..Len(chunks) |-> fromBase64(chunks[k].chunk)])

\* C27: sendFile writes chunks of at most ChunkSize bytes that, decoded and
\* joined in the order written, are the file, the last one and no other
\* with isLast, for a file of any length from 0 on; and once the only
\* responder so far has had all its chunks read on a connection that stayed
\* open, the node has handed over exactly one file, with the bytes of the
\* original, and holds no transfer
C27_FileTransferRoundTrip ==
    [][ /\ (call'.op = "sendFile" /\ call'.ret) =>
              LET chunks == call'.arg
              IN  /\ Len(chunks) >= 1
                  /\ BytesOf(chunks) = log.file
                  /\ \A k \in 1..Len(chunks) :
                        /\ chunks[k].isLast <=> k = Len(chunks)
                        /\ Len(fromBase64(chunks[k].chunk)) <= ChunkSize
        /\ \A c \in Conns :
              (log'.sends = <<c>> /\ log'.closed = {} /\ feed'[c] = <<>>) =>
                 /\ log'.handed = << [fileId |-> request'[1].fileId,
                                      data |-> log'.file] >>
                 /\ fileTransfers' = EmptyMap ]_vars

\* C28: the chunks that a connection delivered before it closed in the
\* middle of a transfer are in no file handed over later: the first file
\* handed over, on a socket such that every chunk held before came from
\* that socket or from a connection that has closed, has the bytes of the
\* original
C28_ClosedTransferIsAbandoned ==
    [][ \A socket \in Conns :
          (/\ call'.op = "data"
           /\ call'.conn = socket
           /\ call'.arg.handed # <<>>
           /\ log.handed = <<>>
           /\ \A j \in 1..Len(log.from) :
                 log.from[j] = socket \/ log.from[j] \in log.closed)
          => \A k \in 1..Len(call'.arg.handed) :
                call'.arg.handed[k].data = log.file ]_vars

\* C29: while both connections are open and both peers send the file, their
\* chunks being read in any interleaving, the first file handed over has
\* the bytes of the file as one peer sent it
C29_FirstCompleteResponseWins ==
    [][ (/\ call'.op = "data"
         /\ call'.arg.handed # <<>>
         /\ log.handed = <<>>
         /\ log'.closed = {})
        => call'.arg.handed[1].data = log.file ]_vars

\* the promise of the download is neither resolved nor rejected
Pending == request # <<>> /\ request[1].state = "pending"

C31_TimeoutAbandonsTransfer ==
    [][ (call'.op = "timeout" /\ Pending)
        => request[1].fileId \notin DOMAIN fileTransfers' ]_vars

----------------------------------------------------------------------------
(* Properties of the connections *)

\* C32: once the close of a socket is handled, no entry of peers leads to
\* that socket, and every peer whose HANDSHAKE was handled on a socket that
\* is still open is still in peers and in peerInfo, hence listed by
\* getConnectedPeers and a target of broadcast and requestFile
C32_CloseRemovesThePeerOnly ==
    [][ \A socket \in Conns :
          (call'.op = "close" /\ call'.conn = socket) =>
             /\ \A id \in DOMAIN peers' : peers'[id] # socket
             /\ \A other \in Conns \ {socket} :
                   (socks[other].open /\ socks[other].peerId # <<>>) =>
                      /\ socks[other].peerId[1] \in DOMAIN peers'
                      /\ socks[other].peerId[1] \in DOMAIN peerInfo' ]_vars

\* C35: the node never has two open connections that it dialed to the same
\* address
C35_NoSecondConnectionToAnAddress ==
    \A c \in Conns : \A d \in Conns \ {c} :
        (socks[c].open /\ socks[d].open /\ log.addr[c] # "")
           => log.addr[c] # log.addr[d]

\* C36: a connectToPeer whose connection is not made rejects its promise
\* and does nothing else: no socket is opened, nothing is written, and the
\* peers, the chain, the index and blockchain.json are as before
C36_FailedConnectIsReported ==
    [][ (log'.dial # <<>> /\ ~log'.dial[1].connected) =>
           /\ call'.op = "connectToPeer"
           /\ call'.threw
           /\ socks' = socks
           /\ sent' = {}
           /\ peers' = peers
           /\ peerInfo' = peerInfo
           /\ chain' = chain
           /\ fileIndex' = fileIndex
           /\ disk' = disk ]_vars

\* a connectToPeer has failed while the node has a peer and a chain of two
\* blocks
C36_Witness ==
    /\ call.op = "connectToPeer"
    /\ call.threw
    /\ log.dial = << [key |-> PeerKey("p1"), connected |-> FALSE,
                      result |-> "rejected"] >>
    /\ DOMAIN peers = {"p2"}
    /\ DOMAIN peerInfo = {"p2"}
    /\ Len(chain) = 2
    /\ \E c \in Conns : socks[c].open /\ socks[c].peerId = <<"p2">>

\* C39: the ids of peerInfo are the ids of peers, and every such id is the
\* peer id of exactly one open socket, the one peers holds for it
C39_PeerMapsAgreeWithConnections ==
    /\ DOMAIN peerInfo = DOMAIN peers
    /\ \A id \in DOMAIN peers :
          /\ socks[peers[id]].open
          /\ { c \in Conns : socks[c].open /\ socks[c].peerId = <<id>> }
               = { peers[id] }

----------------------------------------------------------------------------
(* Properties of the persisted ledger *)

\* C33: every step that changes the chain of the node, by a registration, a
\* BROADCAST_BLOCK, or a RESPONSE_BLOCKCHAIN on its append or its replace
\* path, leaves blockchain.json equal to the new chain
C33_ChainPersistedAfterEveryMutation ==
    [][ chain' # chain => disk' = chain' ]_vars

\* C34: loadBlockchain over a stored chain of one block gives the chain of
\* the genesis block alone; over a longer stored chain it gives that chain
\* only if the chain is well formed (hashes, links, indices, block 0 the
\* canonical genesis), and the chain of the genesis block alone otherwise;
\* and over a file that saveBlockchain has written it gives the chain that
\* was saved
C34_LoadValidatesStoredChain ==
    [][ call'.op = "loadBlockchain" =>
          /\ Len(disk) <= 1 => chain' = <<createGenesisBlock>>
          /\ Len(disk) > 1 =>
                /\ chain' = disk => WellFormedChain(disk)
                /\ chain' # disk => chain' = <<createGenesisBlock>>
          /\ log.saved => (chain' = disk /\ chain' = chain) ]_vars

----------------------------------------------------------------------------
(* Properties of the blocks taken over from peers *)

\* the block a handled BROADCAST_BLOCK or RESPONSE_BLOCKCHAIN brought: the
\* block of the message, or the last block of the chain of the message
ReceivedBlock(c) ==
    IF c.op = "BROADCAST_BLOCK" THEN c.arg ELSE c.arg.tip[1]

\* C38: a block appended on a BROADCAST_BLOCK, or on the fast path of a
\* RESPONSE_BLOCKCHAIN, is stored as it was received: the new last block of
\* the chain has the hash, the nonce and the timestamp of the received block
C38_AppendedBlockIsTheReceivedBlock ==
    [][ (/\ call'.op \in {"BROADCAST_BLOCK", "RESPONSE_BLOCKCHAIN"}
         /\ call'.path = "append") =>
           /\ getLatestBlock(chain').hash = ReceivedBlock(call').hash
           /\ getLatestBlock(chain').nonce = ReceivedBlock(call').nonce
           /\ getLatestBlock(chain').timestamp = ReceivedBlock(call').timestamp ]_vars

----------------------------------------------------------------------------
(* Properties of downloads at the same time *)

\* C40: two downloads of different files that wait at the same time do
\* not disturb each other: when the read that completes the response for
\* the file of a waiting request is handled, that request is resolved with
\* the bytes of its file, whatever other request was started or completed
C40_ConcurrentDownloadsAreIndependent ==
    [][ \A i \in 1..Len(request) :
          (/\ call'.op = "data"
           /\ request[i].state = "pending"
           /\ request[i].fileId \in log'.complete \ log.complete) =>
             /\ request'[i].state = "resolved"
             /\ request'[i].data = log.files[request[i].fileId] ]_vars

----------------------------------------------------------------------------
(* Properties of the incentive accounts *)

\* the account of the local node, one of no tokens when it has none yet
LocalAccount(accts) ==
    IF NodeId \in DOMAIN accts THEN accts[NodeId]
    ELSE [nodeId |-> NodeId, balance |-> Finite(0), totalEarned |-> Finite(0),
          totalWithdrawn |-> Finite(0), lastUpdated |-> 0]

\* C37: withdraw(amount) succeeds exactly when 0 < amount <= balance; then
\* the balance is less by amount and totalWithdrawn more by amount; else
\* the error is 'Invalid amount' when amount <= 0 and 'Insufficient
\* balance' when not, and balance, totalEarned and totalWithdrawn are as
\* before; and the balance is a number that is not negative
C37_WithdrawWithinBalance ==
    [][ call'.op = "withdraw" =>
          LET amount == call'.arg
              before == LocalAccount(accounts)
              after == LocalAccount(accounts')
              allowed == /\ ~amount.nan
                         /\ ~before.balance.nan
                         /\ 0 < amount.n
                         /\ amount.n <= before.balance.n
          IN  /\ call'.ret <=> allowed
              /\ call'.ret =>
                    /\ after.balance = Minus(before.balance, amount)
                    /\ after.totalWithdrawn = Plus(before.totalWithdrawn, amount)
              /\ ~call'.ret =>
                    /\ call'.path = IF LessEq(amount, Finite(0))
                                    THEN "Invalid amount"
                                    ELSE "Insufficient balance"
                    /\ after.balance = before.balance
                    /\ after.totalEarned = before.totalEarned
                    /\ after.totalWithdrawn = before.totalWithdrawn
              /\ LessEq(Finite(0), after.balance) ]_vars

====
